---- MODULE Spec2Model ----
(***************************************************************************)
(* Model of the MCP runtime: the in-memory connector registry with its     *)
(* hot-reload scan, the registry service, the credential resolver over the *)
(* secret store, the credentials REST endpoints, the tools/call endpoint   *)
(* and the HTTP middleware stack.                                          *)
(***************************************************************************)
EXTENDS Integers, Sequences, FiniteSets, TLC

VARIABLES
    hotReload,      \* Settings.HOT_RELOAD, fixed for the process lifetime
    secretsDir,     \* the local secrets directory and the LocalSecretStorage
                    \* instances opened on it
    files,          \* the file system: path -> [exists, mtime, content]
    registries,     \* InternalRegistry._registries: project -> connectors (dict order)
    watchers,       \* InternalRegistry._file_watchers: project -> set of paths
    last,           \* the last registry operation and what it returned
    snap,           \* list_all_tools()/counts observed just before a disable
    secrets,        \* the secret store: secret name -> stored secret
    oauthCache,     \* CredentialResolver._oauth_token_cache
    cred,           \* the last credential operation and what it returned
    req,            \* the last HTTP request received
    resp,           \* the HTTP response sent for it
    stdio,          \* the stdio server: its loop position, the line it read last
                    \* and what it wrote to stdout for it
    reloading,      \* the hot_reload_connector call that is between its two lock sections
    resolving       \* the _resolve_oauth2_credentials calls that are in progress

regVars  == <<hotReload, secretsDir, files, registries, watchers, last, snap>>
credVars == <<secrets, oauthCache, cred>>
httpVars == <<req, resp>>
taskVars == <<stdio, reloading, resolving>>
vars     == <<hotReload, secretsDir, files, registries, watchers, last, snap,
              secrets, oauthCache, cred, req, resp, stdio, reloading, resolving>>

Null == "<null>"

(***************************************************************************)
(* Bounds and input sets                                                   *)
(***************************************************************************)
MaxTime == 2

(* tools/call requests counted per loaded tool *)
MaxCalls == 1

(* st_mtime values: positive seconds since the epoch *)
Times == 1..MaxTime

Projects == {"default"}

Paths == {"f1"}

ToolNames == {"t1", "t2"}

(* Connector manifests that files and install requests may carry. *)
ManifestIds == {"m1", "m2", "m3"}

ManifestOf(id) ==
    CASE id = "m1" -> [name |-> "a", version |-> 1, tools |-> {"t1"}]
      [] id = "m2" -> [name |-> "a", version |-> 2, tools |-> {"t1", "t2"}]
      [] id = "m3" -> [name |-> "b", version |-> 1, tools |-> {"t1"}]

ConnNames == {ManifestOf(id).name : id \in ManifestIds}

(* File contents: a valid manifest, or text that fails YAML/manifest validation. *)
Contents == ManifestIds \cup {"bad"}

NoFile == [exists |-> FALSE, mtime |-> 0, content |-> Null]

(* file_mtime of a connector that was not loaded from a file (None). *)
NoMtime == -1

(***************************************************************************)
(* LoadedTool / LoadedConnector / ProjectRegistry                          *)
(***************************************************************************)
LoadedTool(n, m) ==
    [name |-> n, connector_name |-> m.name, connector_version |-> m.version,
     invocation_count |-> 0]

(* LoadedTool.mark_used that counts nothing *)
mark_used_never(tool) == tool

(* LoadedTool.mark_used *)
mark_used(tool) == [tool EXCEPT !.invocation_count = @ + 1]

MakeTools(m) == [n \in m.tools |-> LoadedTool(n, m)]

(* LoadedConnector.config when no override was given: {} *)
EmptyConfig == "{}"

(* "config or {}" *)
ConfigOr(config) == IF config \in {Null, EmptyConfig} THEN EmptyConfig ELSE config

LoadedConnector(m, path, mtime) ==
    [name |-> m.name, version |-> m.version, tools |-> MakeTools(m),
     file_path |-> path, file_mtime |-> mtime, config |-> EmptyConfig,
     enabled |-> TRUE]

IndexOf(conns, name) ==
    IF \E i \in 1..Len(conns) : conns[i].name = name
    THEN CHOOSE i \in 1..Len(conns) : conns[i].name = name
    ELSE 0

get_connector(conns, name) == conns[IndexOf(conns, name)]

HasConnector(conns, name) == IndexOf(conns, name) # 0

(* dict assignment: an existing key keeps its position, a new key goes last *)
add_connector(conns, c) ==
    IF HasConnector(conns, c.name)
    THEN [conns EXCEPT ![IndexOf(conns, c.name)] = c]
    ELSE Append(conns, c)

remove_connector(conns, name) ==
    SelectSeq(conns, LAMBDA c : c.name # name)

EmptyTools == [n \in {} |-> Null]

NoTool == [name |-> Null, connector_name |-> Null, connector_version |-> 0,
           invocation_count |-> 0]

get_enabled_tools(c) == IF ~c.enabled THEN EmptyTools ELSE c.tools

(* dict.update per enabled connector in iteration order: the last one wins *)
list_all_tools(conns) ==
    LET owners(n) == {i \in 1..Len(conns) :
                         conns[i].enabled /\ n \in DOMAIN get_enabled_tools(conns[i])}
        names == {n \in ToolNames : owners(n) # {}}
        lastOf(n) == CHOOSE i \in owners(n) : \A j \in owners(n) : j <= i
    IN [n \in names |-> conns[lastOf(n)].tools[n]]

(* scan in iteration order, skipping disabled connectors: the first one wins *)
get_tool(conns, n) ==
    LET owners == {i \in 1..Len(conns) : conns[i].enabled /\ n \in DOMAIN conns[i].tools}
    IN IF owners = {} THEN NoTool
       ELSE conns[CHOOSE i \in owners : \A j \in owners : i <= j].tools[n]

(* loaded_tool = get_tool(n); loaded_tool.mark_used(): the object counted is
   the one inside its connector *)
MarkToolUsed(conns, n) ==
    LET owners == {i \in 1..Len(conns) : conns[i].enabled /\ n \in DOMAIN conns[i].tools}
    IN IF owners = {} THEN conns
       ELSE [conns EXCEPT ![CHOOSE i \in owners : \A j \in owners : i <= j].tools[n] =
                             mark_used(@)]

RECURSIVE SumTools(_, _)
SumTools(conns, i) ==
    IF i > Len(conns) THEN 0
    ELSE (IF conns[i].enabled THEN Cardinality(DOMAIN conns[i].tools) ELSE 0)
         + SumTools(conns, i + 1)

get_tool_count(conns) == SumTools(conns, 1)

get_connector_count(conns) == Cardinality({i \in 1..Len(conns) : conns[i].enabled})

(***************************************************************************)
(* InternalRegistry operations, as functions of the registry state         *)
(***************************************************************************)
(* What an operation returned: ok is its boolean result (FALSE when it     *)
(* raised), err the error type it raised with, names the list it returned, *)
(* nth counts consecutive check_for_updates calls (1, then 2 for more).    *)
Ret(op, arg, ok, err, names) ==
    [op |-> op, arg |-> arg, ok |-> ok, err |-> err, names |-> names,
     nth |-> IF op = "check_for_updates"
             THEN (IF last.op = "check_for_updates" THEN 2 ELSE 1)
             ELSE 0]

NoSnap == [p |-> Null, name |-> Null, was |-> FALSE, tools |-> EmptyTools,
           cc |-> 0, tc |-> 0, own |-> 0]

(* A dict with no entries, and the one-entry dict {k: v} *)
NoDict == [k \in {} |-> <<>>]

Dict1(k, v) == [x \in {k} |-> v]

(* LocalSecretStorage.metadata with nothing stored; an empty token cache *)
NoSecrets == [n \in {} |-> Null]

NoCache == [n \in {} |-> Null]

(* The processes that construct a LocalSecretStorage on the directory *)
Instances == {"p1", "p2", "p3"}

(* The local secrets directory before anything is stored: the secret files,
   the index file secrets_metadata.json, the LocalSecretStorage instances
   constructed so far with the in-memory metadata of each, and what the last
   operation on an instance returned *)
NoSecretsDir ==
    [files |-> {}, index |-> NoSecrets,
     opened |-> {}, metadata |-> [i \in Instances |-> NoSecrets],
     ret |-> [op |-> "init", instance |-> Null, name |-> Null, found |-> FALSE]]

(* A tool's auth declaration (ApiKeyAuth / OAuth2ClientCredentialsAuth / NoAuth) *)
NoAuth == [type |-> "none", key_name |-> Null, location |-> Null, scheme |-> Null,
           token_url |-> Null]

(* What a credential operation returned; the fields past ok are those of
   ResolvedCredentials, exchanges counts the token requests the operation
   made, hit tells whether it found a cached token, prev is the token the
   operation just before it returned for the same connector. *)
CredRet(op, c, ok) ==
    [op |-> op, conn |-> c, decl |-> NoAuth, ok |-> ok,
     headers |-> NoDict, query_params |-> NoDict, cookies |-> NoDict,
     oauth_token |-> Null, exchanges |-> 0, hit |-> FALSE, prev |-> Null]

(* An HTTP header that may be absent *)
NoHeader == [present |-> FALSE, value |-> <<>>]

NoRequest == [route |-> Null, conn |-> <<>>, tool |-> Null, exec |-> Null,
              tenant |-> NoHeader, bearer |-> FALSE]

(* A response: raised names the exception still propagating instead, if any;
   body is "json" for a JSON payload, the error type for the generic error
   envelope, "text" for a plain-text body *)
Response(status, isError) ==
    [raised |-> "none", status |-> status, isError |-> isError, headers |-> NoDict,
     body |-> "json"]

NoResponse == Response(0, "none")

(* The stdio server before it has read a line *)
NoStdio == [pc |-> "reading", n |-> 0, development |-> TRUE,
            line |-> [kind |-> "none", id |-> Null, method |-> Null,
                      params |-> Null, tool |-> Null],
            wrote |-> <<>>]

(* No hot_reload_connector call is between its lock sections *)
NoReload == [pc |-> "idle", p |-> Null, name |-> Null, file_path |-> Null,
             config |-> EmptyConfig, enabled |-> FALSE,
             regs |-> [q \in {} |-> <<>>], watch |-> [q \in {} |-> {}]]

(* The concurrent callers of resolve_credentials *)
Resolvers == {"r1", "r2", "r3"}

(* A caller that is not inside _resolve_oauth2_credentials *)
NoResolve == [pc |-> "idle", conn |-> <<>>, token |-> Null, exchanges |-> 0,
              hit |-> FALSE, returned |-> Null, last |-> FALSE]

LoadOk(path) == files[path].exists /\ files[path].content \in ManifestIds

(* load_connector_from_file: the connector built from the file's manifest *)
load_connector_from_file(path, config) ==
    [LoadedConnector(ManifestOf(files[path].content), path, files[path].mtime)
        EXCEPT !.config = ConfigOr(config)]

(* ... and its registration of the path as watched for the project *)
WatchAfterLoad(watch, p, path) ==
    IF p \in DOMAIN watch THEN [watch EXCEPT ![p] = @ \cup {path}] ELSE watch

load_connector_from_manifest(id) == LoadedConnector(ManifestOf(id), Null, NoMtime)

(* install_connector without the replace_existing test *)
install_connector_overwrite(regs, p, c, replace_existing) ==
    IF p \notin DOMAIN regs
    THEN [regs |-> regs, ok |-> FALSE, err |-> "PROJECT_NOT_FOUND"]
    ELSE [regs |-> [regs EXCEPT ![p] = add_connector(@, c)], ok |-> TRUE, err |-> Null]

(* install_connector: [regs, ok, err] *)
install_connector(regs, p, c, replace_existing) ==
    IF p \notin DOMAIN regs
    THEN [regs |-> regs, ok |-> FALSE, err |-> "PROJECT_NOT_FOUND"]
    ELSE IF HasConnector(regs[p], c.name) /\ ~replace_existing
    THEN [regs |-> regs, ok |-> FALSE, err |-> Null]
    ELSE [regs |-> [regs EXCEPT ![p] = add_connector(@, c)], ok |-> TRUE, err |-> Null]

(* uninstall_connector: [regs, watch, ok] *)
uninstall_connector(regs, watch, p, name) ==
    IF p \notin DOMAIN regs
    THEN [regs |-> regs, watch |-> watch, ok |-> FALSE]
    ELSE LET has == HasConnector(regs[p], name)
             c   == get_connector(regs[p], name)
         IN [regs  |-> [regs EXCEPT ![p] = remove_connector(@, name)],
             watch |-> IF has /\ c.file_path # Null /\ p \in DOMAIN watch
                       THEN [watch EXCEPT ![p] = @ \ {c.file_path}]
                       ELSE watch,
             ok    |-> has]

(* NeedsReload with the comparison weakened to "not older" *)
NeedsReload_notOlder(c) ==
    /\ c.file_path # Null
    /\ c.file_mtime # NoMtime /\ c.file_mtime # 0
    /\ files[c.file_path].exists
    /\ files[c.file_path].mtime >= c.file_mtime

(* The stat() of check_for_updates: is the file newer than the recorded time? *)
NeedsReload(c) ==
    /\ c.file_path # Null
    /\ c.file_mtime # NoMtime /\ c.file_mtime # 0
    /\ files[c.file_path].exists
    /\ files[c.file_path].mtime > c.file_mtime

(* check_for_updates: the names of the connectors to reload, in dict order *)
check_for_updates(regs, p) ==
    IF ~hotReload THEN <<>>
    ELSE IF p \notin DOMAIN regs THEN <<>>
    ELSE LET stale == SelectSeq(regs[p], NeedsReload)
         IN [i \in 1..Len(stale) |-> stale[i].name]

(* hot_reload_connector: [regs, watch, ok] *)
hot_reload_connector(regs, watch, p, name) ==
    LET unchanged == [regs |-> regs, watch |-> watch, ok |-> FALSE]
    IN IF ~hotReload THEN unchanged
       ELSE IF p \notin DOMAIN regs THEN unchanged
       ELSE IF ~HasConnector(regs[p], name) THEN unchanged
       ELSE LET old == get_connector(regs[p], name)
            IN IF old.file_path = Null THEN unchanged
               ELSE IF ~LoadOk(old.file_path) THEN unchanged
               ELSE LET new == [load_connector_from_file(old.file_path, old.config)
                                   EXCEPT !.enabled = old.enabled]
                        ins == install_connector(regs, p, new, TRUE)
                    IN [regs  |-> ins.regs,
                        watch |-> WatchAfterLoad(watch, p, old.file_path),
                        ok    |-> TRUE]

(* perform_hot_reload_check: reload each flagged connector in turn, keeping
   the names whose reload succeeded: [regs, watch, names] *)
RECURSIVE ReloadEach(_, _, _, _, _, _)
ReloadEach(regs, watch, p, names, i, done) ==
    IF i > Len(names) THEN [regs |-> regs, watch |-> watch, names |-> done]
    ELSE LET r == hot_reload_connector(regs, watch, p, names[i])
         IN ReloadEach(r.regs, r.watch, p, names, i + 1,
                       IF r.ok THEN Append(done, names[i]) ELSE done)

perform_hot_reload_check(regs, watch, p) ==
    ReloadEach(regs, watch, p, check_for_updates(regs, p), 1, <<>>)

(***************************************************************************)
(* Registry actions                                                        *)
(***************************************************************************)
(* create_project_registry: idempotent *)
CreateProjectRegistry(p) ==
    /\ registries' = IF p \in DOMAIN registries THEN registries
                     ELSE [q \in DOMAIN registries \cup {p} |->
                              IF q = p THEN <<>> ELSE registries[q]]
    /\ watchers' = IF p \in DOMAIN registries THEN watchers
                   ELSE [q \in DOMAIN watchers \cup {p} |->
                            IF q = p THEN {} ELSE watchers[q]]
    /\ last' = Ret("create_project_registry", p, TRUE, Null, <<>>)
    /\ snap' = NoSnap
    /\ UNCHANGED <<taskVars, hotReload, secretsDir, files, credVars, httpVars>>

(* remove_project_registry *)
RemoveProjectRegistry(p) ==
    /\ registries' = [q \in DOMAIN registries \ {p} |-> registries[q]]
    /\ watchers' = IF p \in DOMAIN registries
                   THEN [q \in DOMAIN watchers \ {p} |-> watchers[q]]
                   ELSE watchers
    /\ last' = Ret("remove_project_registry", p, p \in DOMAIN registries, Null, <<>>)
    /\ snap' = NoSnap
    /\ UNCHANGED <<taskVars, hotReload, secretsDir, files, credVars, httpVars>>

(* load_connector_from_manifest, then install_connector(p, c, replace_existing) *)
InstallConnector(p, id, replace_existing) ==
    LET c == load_connector_from_manifest(id)
        r == install_connector(registries, p, c, replace_existing)
    IN /\ registries' = r.regs
       /\ last' = Ret("install_connector", c.name, r.ok, r.err, <<>>)
       /\ snap' = NoSnap
       /\ UNCHANGED <<taskVars, hotReload, secretsDir, files, watchers, credVars, httpVars>>

(* RegistryService.ensure_project_registry *)
EnsureRegs(regs, p) ==
    IF p \in DOMAIN regs THEN regs
    ELSE [q \in DOMAIN regs \cup {p} |-> IF q = p THEN <<>> ELSE regs[q]]

EnsureWatch(regs, watch, p) ==
    IF p \in DOMAIN regs THEN watch
    ELSE [q \in DOMAIN watch \cup {p} |-> IF q = p THEN {} ELSE watch[q]]

(* RegistryService.install_connector_from_manifest with a config override *)
InstallConnectorFromManifestWith(p, id, config, enabled) ==
    LET regs == EnsureRegs(registries, p)
        c == [load_connector_from_manifest(id) EXCEPT !.enabled = enabled,
                                                      !.config = ConfigOr(config)]
        r == install_connector(regs, p, c, TRUE)
    IN /\ registries' = r.regs
       /\ watchers' = EnsureWatch(registries, watchers, p)
       /\ last' = Ret("install_connector_from_manifest", c.name, r.ok, r.err, <<>>)
       /\ snap' = NoSnap
       /\ UNCHANGED <<taskVars, hotReload, secretsDir, files, credVars, httpVars>>

(* RegistryService.install_connector_from_manifest, config left at its default *)
InstallConnectorFromManifest(p, id, enabled) ==
    InstallConnectorFromManifestWith(p, id, Null, enabled)

(* RegistryService.install_connector_from_file with a config override *)
InstallConnectorFromFileWith(p, path, config, enabled) ==
    LET regs == EnsureRegs(registries, p)
        watch == EnsureWatch(registries, watchers, p)
    IN IF ~LoadOk(path)
       THEN /\ registries' = regs
            /\ watchers' = watch
            /\ last' = Ret("install_connector_from_file", Null, FALSE,
                           IF files[path].exists THEN "VALIDATION_ERROR"
                           ELSE "LOAD_ERROR", <<>>)
            /\ snap' = NoSnap
            /\ UNCHANGED <<taskVars, hotReload, secretsDir, files, credVars, httpVars>>
       ELSE LET c == [load_connector_from_file(path, config) EXCEPT !.enabled = enabled]
                r == install_connector(regs, p, c, TRUE)
            IN /\ registries' = r.regs
               /\ watchers' = WatchAfterLoad(watch, p, path)
               /\ last' = Ret("install_connector_from_file", c.name, r.ok, r.err, <<>>)
               /\ snap' = NoSnap
               /\ UNCHANGED <<taskVars, hotReload, secretsDir, files, credVars, httpVars>>

(* RegistryService.install_connector_from_file, config left at its default *)
InstallConnectorFromFile(p, path, enabled) ==
    InstallConnectorFromFileWith(p, path, Null, enabled)

(* RegistryService.uninstall_connector *)
UninstallConnector(p, name) ==
    LET r == uninstall_connector(registries, watchers, p, name)
    IN /\ registries' = r.regs
       /\ watchers' = r.watch
       /\ last' = Ret("uninstall_connector", name, r.ok, Null, <<>>)
       /\ snap' = NoSnap
       /\ UNCHANGED <<taskVars, hotReload, secretsDir, files, credVars, httpVars>>

(* SetEnabled that can only switch a connector off *)
SetEnabled_offOnly(conns, name, flag) ==
    [conns EXCEPT ![IndexOf(conns, name)].enabled = FALSE]

(* the enabled flag written by enable_connector / disable_connector *)
SetEnabled(conns, name, flag) ==
    [conns EXCEPT ![IndexOf(conns, name)].enabled = flag]

(* RegistryService.disable_connector *)
DisableConnector(p, name) ==
    LET found == p \in DOMAIN registries /\ HasConnector(registries[p], name)
    IN /\ registries' = IF found
                        THEN [registries EXCEPT ![p] = SetEnabled(@, name, FALSE)]
                        ELSE registries
       /\ last' = Ret("disable_connector", name, found, Null, <<>>)
       /\ snap' = IF found
                  THEN [p     |-> p,
                        name  |-> name,
                        was   |-> get_connector(registries[p], name).enabled,
                        tools |-> list_all_tools(registries[p]),
                        cc    |-> get_connector_count(registries[p]),
                        tc    |-> get_tool_count(registries[p]),
                        own   |-> Cardinality(DOMAIN
                                     get_connector(registries[p], name).tools)]
                  ELSE NoSnap
       /\ UNCHANGED <<taskVars, hotReload, secretsDir, files, watchers, credVars, httpVars>>

(* RegistryService.enable_connector *)
EnableConnector(p, name) ==
    LET found == p \in DOMAIN registries /\ HasConnector(registries[p], name)
    IN /\ registries' = IF found
                        THEN [registries EXCEPT ![p] = SetEnabled(@, name, TRUE)]
                        ELSE registries
       /\ last' = Ret("enable_connector", name, found, Null, <<>>)
       /\ snap' = IF found /\ last.op = "disable_connector" /\ snap.name = name
                  THEN snap ELSE NoSnap
       /\ UNCHANGED <<taskVars, hotReload, secretsDir, files, watchers, credVars, httpVars>>

(* InternalRegistry.check_for_updates *)
CheckForUpdates(p) ==
    /\ last' = Ret("check_for_updates", p, TRUE, Null,
                   check_for_updates(registries, p))
    /\ snap' = NoSnap
    /\ UNCHANGED <<taskVars, hotReload, secretsDir, files, registries, watchers, credVars, httpVars>>

(* InternalRegistry.hot_reload_connector *)
HotReloadConnector(p, name) ==
    LET r == hot_reload_connector(registries, watchers, p, name)
    IN /\ registries' = r.regs
       /\ watchers' = r.watch
       /\ last' = Ret("hot_reload_connector", name, r.ok, Null, <<>>)
       /\ snap' = NoSnap
       /\ UNCHANGED <<taskVars, hotReload, secretsDir, files, credVars, httpVars>>

(* RegistryService.perform_hot_reload_check *)
PerformHotReloadCheck(p) ==
    LET r == perform_hot_reload_check(registries, watchers, p)
    IN /\ registries' = r.regs
       /\ watchers' = r.watch
       /\ last' = Ret("perform_hot_reload_check", p, TRUE, Null, r.names)
       /\ snap' = NoSnap
       /\ UNCHANGED <<taskVars, hotReload, secretsDir, files, credVars, httpVars>>

(***************************************************************************)
(* The file system under the registry                                      *)
(***************************************************************************)
EnvRet == Ret("file_change", Null, TRUE, Null, <<>>)

(* a descriptor file is written (created or rewritten) at time t *)
WriteFile(path, content, t) ==
    /\ files[path].exists => t > files[path].mtime
    /\ files' = [files EXCEPT ![path] =
                    [exists |-> TRUE, mtime |-> t, content |-> content]]
    /\ last' = EnvRet
    /\ snap' = NoSnap
    /\ UNCHANGED <<taskVars, hotReload, secretsDir, registries, watchers, credVars, httpVars>>

(* a descriptor file is touched to a later modification time *)
TouchFile(path, t) ==
    /\ files[path].exists
    /\ t > files[path].mtime
    /\ files' = [files EXCEPT ![path].mtime = t]
    /\ last' = EnvRet
    /\ snap' = NoSnap
    /\ UNCHANGED <<taskVars, hotReload, secretsDir, registries, watchers, credVars, httpVars>>

(* a descriptor file is deleted *)
DeleteFile(path) ==
    /\ files[path].exists
    /\ files' = [files EXCEPT ![path] = NoFile]
    /\ last' = EnvRet
    /\ snap' = NoSnap
    /\ UNCHANGED <<taskVars, hotReload, secretsDir, registries, watchers, credVars, httpVars>>

(***************************************************************************)
(* Specification of the registry and its hot-reload scan                   *)
(***************************************************************************)
RegInit ==
    /\ hotReload \in BOOLEAN
    /\ secretsDir = NoSecretsDir
    /\ files = [path \in Paths |-> NoFile]
    /\ registries = [q \in {} |-> <<>>]
    /\ watchers = [q \in {} |-> {}]
    /\ last = [op |-> "init", arg |-> Null, ok |-> TRUE, err |-> Null,
               names |-> <<>>, nth |-> 0]
    /\ snap = NoSnap

CredInit ==
    /\ secrets = NoSecrets
    /\ oauthCache = NoCache
    /\ cred = CredRet("init", <<>>, TRUE)

HttpInit ==
    /\ req = NoRequest
    /\ resp = NoResponse

TaskInit ==
    /\ stdio = NoStdio
    /\ reloading = NoReload
    /\ resolving = [t \in Resolvers |-> NoResolve]

Init == RegInit /\ CredInit /\ HttpInit /\ TaskInit

RegNext ==
    \/ \E p \in Projects : CreateProjectRegistry(p)
    \/ \E p \in Projects : RemoveProjectRegistry(p)
    \/ \E p \in Projects, id \in ManifestIds, r \in BOOLEAN : InstallConnector(p, id, r)
    \/ \E p \in Projects, id \in ManifestIds, e \in BOOLEAN :
          InstallConnectorFromManifest(p, id, e)
    \/ \E p \in Projects, path \in Paths, e \in BOOLEAN :
          InstallConnectorFromFile(p, path, e)
    \/ \E p \in Projects, n \in ConnNames : UninstallConnector(p, n)
    \/ \E p \in Projects, n \in ConnNames : DisableConnector(p, n)
    \/ \E p \in Projects, n \in ConnNames : EnableConnector(p, n)
    \/ \E p \in Projects : CheckForUpdates(p)
    \/ \E p \in Projects, n \in ConnNames : HotReloadConnector(p, n)
    \/ \E p \in Projects : PerformHotReloadCheck(p)
    \/ \E path \in Paths, c \in Contents, t \in Times : WriteFile(path, c, t)
    \/ \E path \in Paths, t \in Times : TouchFile(path, t)
    \/ \E path \in Paths : DeleteFile(path)

SpecRegistry == Init /\ [][RegNext]_vars

(***************************************************************************)
(* Properties of the registry                                              *)
(***************************************************************************)
Count(x, seq) == Cardinality({i \in 1..Len(seq) : seq[i] = x})

(* the connector's file exists and is newer than the time recorded at load *)
FileIsNewer(c) ==
    /\ c.file_path # Null
    /\ files[c.file_path].exists
    /\ files[c.file_path].mtime > c.file_mtime

(* C1, as stated: with hot-reload enabled, a check made after the file of an
   installed file-backed connector was touched to a later time reports that
   connector's name exactly once, and a second check made immediately
   afterwards, with nothing done in between, reports nothing. *)
C1_ReportedOnceThenNothing ==
    (hotReload /\ last.op = "check_for_updates" /\ last.arg \in DOMAIN registries) =>
        /\ last.nth = 1 =>
              \A i \in 1..Len(registries[last.arg]) :
                  FileIsNewer(registries[last.arg][i]) =>
                      Count(registries[last.arg][i].name, last.names) = 1
        /\ last.nth = 2 => last.names = <<>>

(* C1, amended: with hot-reload enabled, every check_for_updates reports
   exactly once each installed file-backed connector whose file exists and is
   newer than the recorded modification time, and reports no other connector;
   the check records nothing, so a second check made immediately afterwards
   reports the same connectors again. *)
C1_ReportedUntilReloaded ==
    (hotReload /\ last.op = "check_for_updates" /\ last.arg \in DOMAIN registries) =>
        /\ \A i \in 1..Len(registries[last.arg]) :
              Count(registries[last.arg][i].name, last.names) =
                  IF FileIsNewer(registries[last.arg][i]) THEN 1 ELSE 0
        /\ \A j \in 1..Len(last.names) :
              HasConnector(registries[last.arg], last.names[j])

(* C1 witness: a second consecutive check still reports a connector *)
C1_Witness ==
    /\ hotReload
    /\ last.op = "check_for_updates"
    /\ last.nth = 2
    /\ last.names # <<>>

(* C2: install_connector(project, c, replace_existing=false), called when a
   connector with c's name is already installed in the project, returns false
   and leaves the installed connector and its tools unchanged. *)
C2_InstallWithoutReplace ==
    [][last'.op = "install_connector" =>
          \A p \in DOMAIN registries, id \in ManifestIds :
              (/\ HasConnector(registries[p], ManifestOf(id).name)
               /\ InstallConnector(p, id, FALSE))
              => (/\ ~last'.ok
                  /\ last'.err = Null
                  /\ registries' = registries)]_vars

(* C2 witness: install_connector returned false without raising, which it
   does only for an installed name and replace_existing=false; the installed
   connector differs from the one offered. *)
C2_Witness ==
    /\ last.op = "install_connector"
    /\ ~last.ok
    /\ last.err = Null
    /\ \E p \in DOMAIN registries :
          /\ HasConnector(registries[p], last.arg)
          /\ get_connector(registries[p], last.arg).version = 2
          /\ get_connector(registries[p], last.arg).file_path # Null

(* C3: after disable_connector(project, c) succeeds on an enabled connector,
   none of c's tools appear in list_all_tools() and get_connector_count() and
   get_tool_count() have dropped by 1 and by the number of c's tools; after a
   following enable_connector(project, c), list_all_tools() and both counts
   are back to their values before the disable. *)
C3_DisableThenEnable ==
    /\ (last.op = "disable_connector" /\ last.ok /\ snap.was) =>
          LET conns == registries[snap.p]
          IN /\ \A n \in DOMAIN list_all_tools(conns) :
                    list_all_tools(conns)[n].connector_name # snap.name
             /\ get_connector_count(conns) = snap.cc - 1
             /\ get_tool_count(conns) = snap.tc - snap.own
    /\ (last.op = "enable_connector" /\ last.ok /\ snap.name = last.arg /\ snap.was) =>
          LET conns == registries[snap.p]
          IN /\ list_all_tools(conns) = snap.tools
             /\ get_connector_count(conns) = snap.cc
             /\ get_tool_count(conns) = snap.tc

(* C3 witness: a connector was disabled and re-enabled while another enabled
   connector exposes a tool of the same name *)
C3_Witness ==
    /\ last.op = "enable_connector"
    /\ last.ok
    /\ snap.name = last.arg
    /\ snap.was
    /\ snap.cc = 2
    /\ snap.tc = 3

(***************************************************************************)
(* Strings the code transforms, as sequences of characters                 *)
(***************************************************************************)
(* str.replace(ch, "") and str.replace(ch, by) for a single character *)
Remove(s, ch) == SelectSeq(s, LAMBDA x : x # ch)

Replace(s, ch, by) == [i \in 1..Len(s) |-> IF s[i] = ch THEN by ELSE s[i]]

LowerChar(ch) == CASE ch = "A" -> "a" [] ch = "B" -> "b" [] ch = "P" -> "p" [] OTHER -> ch

Lower(s) == [i \in 1..Len(s) |-> LowerChar(s[i])]

(* Python truthiness of an optional string, and "a or b" *)
Falsy(x) == x = Null \/ x = ""

PyOr(a, b) == IF Falsy(a) THEN b ELSE a

(***************************************************************************)
(* The secret store                                                        *)
(***************************************************************************)
(* Connector names credentials are kept for: "c" and "@A" *)
CredConns == {<<"c">>, <<"@", "A">>}

ApiKeyValue == "k1"

Tokens == {"tok1", "tok2"}

(* The suffix argument when it is None or empty: "if suffix:" is false *)
NoSuffix == <<>>

(* generate_secret_name with "/" removed instead of replaced *)
generate_secret_name_strip(connector_name, secret_type, suffix) ==
    LET base == connector_name \o <<"-", secret_type>>
        full == IF suffix = NoSuffix THEN base ELSE base \o <<"-">> \o suffix
    IN Lower(Remove(Remove(full, "@"), "/"))

(* generate_secret_name: the SecretType value is one unit of the name; it
   holds no "@", "/" or upper-case letter *)
generate_secret_name(connector_name, secret_type, suffix) ==
    LET base == connector_name \o <<"-", secret_type>>
        full == IF suffix = NoSuffix THEN base ELSE base \o <<"-">> \o suffix
    IN Lower(Replace(Remove(full, "@"), "/", "-"))

(* SecretMetadata.tags: the keys the resolver and the endpoints read; Null
   stands for an absent key or a None value *)
Tags(key_name, location, scheme, token_url, scopes) ==
    [key_name |-> key_name, location |-> location, scheme |-> scheme,
     token_url |-> token_url, scopes |-> scopes]

NoTags == Tags(Null, Null, Null, Null, Null)

(* Fernet: the token written to the secret file, and its decryption *)
fernet_encrypt(value) == <<"fernet", value>>

fernet_decrypt(token) == token[2]

(* the values of the SecretType enumeration *)
SecretTypes == {"api_key", "oauth2_client_id", "oauth2_client_secret",
                "oauth2_refresh_token", "oauth2_access_token"}

(* SecretType(meta_data["secret_type"]), api_key when that is no member *)
SecretTypeOf(v) == IF v \in SecretTypes THEN v ELSE "api_key"

(* store_secret: the encrypted secret file and the metadata entry, written
   together under the name; via records which caller stored the secret *)
store_secret(store, name, value, secret_type, connector_name, tags, via) ==
    [n \in DOMAIN store \cup {name} |->
        IF n = name
        THEN [value |-> fernet_encrypt(value), secret_type |-> secret_type,
              connector_name |-> connector_name, tags |-> tags, via |-> via]
        ELSE store[n]]

secret_exists(store, name) == name \in DOMAIN store

(* delete_secret that removes nothing *)
delete_secret_keep(store, name) == store

delete_secret(store, name) == [n \in DOMAIN store \ {name} |-> store[n]]

(* SecretMetadata as get_secret rebuilds it *)
SecretMetadata(name, secret_type, connector_name, tags) ==
    [name |-> name, secret_type |-> secret_type, connector_name |-> connector_name,
     tags |-> tags]

(* get_secret: SecretNotFoundError (found = FALSE), or the decrypted value
   with the metadata rebuilt from the metadata entry *)
get_secret(store, name) ==
    IF name \notin DOMAIN store
    THEN [found |-> FALSE, value |-> Null,
          metadata |-> SecretMetadata(name, Null, <<>>, NoTags)]
    ELSE [found |-> TRUE, value |-> fernet_decrypt(store[name].value),
          metadata |-> SecretMetadata(name, SecretTypeOf(store[name].secret_type),
                                      store[name].connector_name, store[name].tags)]

(***************************************************************************)
(* CredentialResolver                                                      *)
(***************************************************************************)
ApiKeyAuth(key_name, location, scheme) ==
    [type |-> "api_key", key_name |-> key_name, location |-> location,
     scheme |-> scheme, token_url |-> Null]

OAuth2ClientCredentialsAuth(token_url) ==
    [type |-> "oauth2_client_credentials", key_name |-> Null, location |-> Null,
     scheme |-> Null, token_url |-> token_url]

(* ResolvedCredentials, with the number of token requests made and the
   token cache the resolution leaves behind *)
Resolved(auth_type, headers, query_params, cookies, token, exchanges, cache) ==
    [ok |-> TRUE, auth_type |-> auth_type, headers |-> headers,
     query_params |-> query_params, cookies |-> cookies, oauth_token |-> token,
     exchanges |-> exchanges, cache |-> cache]

(* CredentialResolutionError *)
Failed(exchanges, cache) ==
    [ok |-> FALSE, auth_type |-> Null, headers |-> NoDict, query_params |-> NoDict,
     cookies |-> NoDict, oauth_token |-> Null, exchanges |-> exchanges,
     cache |-> cache]

(* Place that puts every key into the headers *)
Place_headerAlways(location, key_name, auth_value, cache) ==
    IF location \in {"header", "query", "cookie"}
    THEN Resolved("api_key", Dict1(key_name, auth_value), NoDict, NoDict, Null, 0, cache)
    ELSE Failed(0, cache)

(* the placement of the key by location *)
Place(location, key_name, auth_value, cache) ==
    CASE location = "header" ->
            Resolved("api_key", Dict1(key_name, auth_value), NoDict, NoDict, Null, 0, cache)
      [] location = "query" ->
            Resolved("api_key", NoDict, Dict1(key_name, auth_value), NoDict, Null, 0, cache)
      [] location = "cookie" ->
            Resolved("api_key", NoDict, NoDict, Dict1(key_name, auth_value), Null, 0, cache)
      [] OTHER -> Failed(0, cache)

(* _resolve_api_key_credentials: the stored tags come before the declaration *)
_resolve_api_key_credentials(store, cache, decl, connector_name) ==
    LET secret_name == generate_secret_name(connector_name, "api_key", NoSuffix)
    IN IF ~secret_exists(store, secret_name) THEN Failed(0, cache)
       ELSE LET secret_value == get_secret(store, secret_name)
                tags == secret_value.metadata.tags
                key_name == PyOr(tags.key_name, decl.key_name)
                location == PyOr(tags.location, decl.location)
                scheme == PyOr(tags.scheme, decl.scheme)
                auth_value == IF Falsy(scheme) THEN <<secret_value.value>>
                              ELSE <<scheme, secret_value.value>>
            IN Place(location, key_name, auth_value, cache)

CacheKey(connector_name) == connector_name \o <<":oauth2">>

(* OAuthSecretsFound that looks for the client id only *)
OAuthSecretsFound_idOnly(store, connector_name) ==
    secret_exists(store, generate_secret_name(connector_name, "oauth2_client_id", NoSuffix))

(* both get_secret calls of _resolve_oauth2_credentials find their secret *)
OAuthSecretsFound(store, connector_name) ==
    /\ secret_exists(store, generate_secret_name(connector_name, "oauth2_client_id", NoSuffix))
    /\ secret_exists(store, generate_secret_name(connector_name, "oauth2_client_secret", NoSuffix))

(* CacheToken that forgets the token *)
CacheToken_forget(cache, key, token) == cache

(* self._oauth_token_cache[cache_key] = access_token *)
CacheToken(cache, key, token) ==
    [k \in DOMAIN cache \cup {key} |-> IF k = key THEN token ELSE cache[k]]

(* _resolve_oauth2_credentials; outcome is what the token endpoint answers:
   an access token, or "fail" for any answer _request_oauth2_token rejects *)
_resolve_oauth2_credentials(store, cache, decl, connector_name, outcome) ==
    LET cache_key == CacheKey(connector_name)
        bearer(t) == Dict1("Authorization", <<"Bearer", t>>)
    IN IF cache_key \in DOMAIN cache
       THEN Resolved("oauth2_client_credentials", bearer(cache[cache_key]),
                     NoDict, NoDict, cache[cache_key], 0, cache)
       ELSE IF ~OAuthSecretsFound(store, connector_name) THEN Failed(0, cache)
       ELSE LET tags == store[generate_secret_name(connector_name,
                                                   "oauth2_client_id", NoSuffix)].tags
                token_url == PyOr(tags.token_url, decl.token_url)
            IN IF Falsy(token_url) THEN Failed(0, cache)
               ELSE IF outcome = "fail" THEN Failed(1, cache)
               ELSE Resolved("oauth2_client_credentials", bearer(outcome),
                             NoDict, NoDict, outcome, 1,
                             CacheToken(cache, cache_key, outcome))

resolve_credentials(store, cache, decl, connector_name, outcome) ==
    CASE decl.type = "none" -> Resolved("none", NoDict, NoDict, NoDict, Null, 0, cache)
      [] decl.type = "api_key" ->
            _resolve_api_key_credentials(store, cache, decl, connector_name)
      [] decl.type = "oauth2_client_credentials" ->
            _resolve_oauth2_credentials(store, cache, decl, connector_name, outcome)
      [] OTHER -> Failed(0, cache)

(* clear_oauth_cache: one connector's entry, or every entry for no name *)
clear_oauth_cache(cache, connector_name) ==
    IF connector_name = <<>> THEN NoCache
    ELSE [k \in DOMAIN cache \ {CacheKey(connector_name)} |-> cache[k]]

(***************************************************************************)
(* The HTTP application: middleware stack around the route handlers        *)
(***************************************************************************)
(* "default-tenant" *)
DefaultTenant == <<"d", "e", "f", "a", "u", "l", "t", "-", "t", "e", "n", "a", "n", "t">>

(* the characters str.isalnum accepts, among those that occur *)
AlnumChars == {"a", "d", "e", "f", "l", "n", "t", "u", "A", "0", "1"}

isalnum(s) == Len(s) > 0 /\ \A i \in 1..Len(s) : s[i] \in AlnumChars

TenantMaxLen == 100

_is_valid_tenant_id(tenant_id) ==
    /\ Len(tenant_id) > 0
    /\ Len(tenant_id) <= TenantMaxLen
    /\ isalnum(Remove(Remove(tenant_id, "-"), "_"))

(* TenantOf that ignores the X-Tenant-ID header *)
TenantOf_default(rq) == DefaultTenant

(* the tenant id TenantIsolationMiddleware settles on: a Bearer token first,
   then a non-empty X-Tenant-ID header, then the default *)
TenantOf(rq) ==
    IF rq.bearer THEN DefaultTenant
    ELSE IF rq.tenant.present /\ rq.tenant.value # <<>> THEN rq.tenant.value
    ELSE DefaultTenant

(* an exception leaving a handler or a middleware *)
Raised(kind, status) ==
    [raised |-> kind, status |-> status, isError |-> "none", headers |-> NoDict,
     body |-> "none"]

SetHeader(r, k, v) ==
    [r EXCEPT !.headers = [x \in DOMAIN r.headers \cup {k} |->
                              IF x = k THEN v ELSE r.headers[x]]]

(* str(round(process_time, 4)) *)
ProcessTime == "0.0012"

(* Starlette's ExceptionMiddleware with the app's handlers: HTTPException,
   request validation errors and MCPRuntimeException become responses *)
ExceptionMiddleware(r) ==
    IF r.raised \in {"HTTPException", "RequestValidationError", "MCPRuntimeException"}
    THEN Response(r.status, "none")
    ELSE r

ErrorHandlingMiddleware(r) ==
    IF r.raised \in {"none", "MCPRuntimeException"} THEN r
    ELSE [Response(500, "none") EXCEPT !.body = "internal_server_error"]

RequestLoggingMiddleware(r) ==
    IF r.raised # "none" THEN r
    ELSE SetHeader(r, "X-Process-Time", ProcessTime)

(* TenantIsolationMiddleware.dispatch after call_next returned *)
TenantIsolationMiddleware(rq, correlation_id, r) ==
    IF r.raised # "none" THEN r
    ELSE SetHeader(SetHeader(r, "X-Correlation-ID", correlation_id),
                   "X-Tenant-ID", TenantOf(rq))

(* Starlette's ServerErrorMiddleware: a plain-text "Internal Server Error" *)
ServerErrorMiddleware(r) ==
    IF r.raised # "none" THEN [Response(500, "none") EXCEPT !.body = "text"] ELSE r

(* TenantIsolationMiddleware.dispatch answers 400 itself, before call_next *)
Rejected(rq) == ~_is_valid_tenant_id(TenantOf(rq))

(* create_app: the last middleware added is the outermost *)
App(rq, correlation_id, handled) ==
    IF Rejected(rq) THEN Response(400, "none")
    ELSE ServerErrorMiddleware(
            TenantIsolationMiddleware(rq, correlation_id,
               RequestLoggingMiddleware(
                  ErrorHandlingMiddleware(
                     ExceptionMiddleware(handled)))))

Request(route, conn, tool, exec, hdr) ==
    [route |-> route, conn |-> conn, tool |-> tool, exec |-> exec,
     tenant |-> hdr.tenant, bearer |-> hdr.bearer]

(* request headers: X-Tenant-ID and whether Authorization is "Bearer ..." *)
Hdr(present, value, bearer) ==
    [tenant |-> [present |-> present, value |-> value], bearer |-> bearer]

NoHdr == Hdr(FALSE, <<>>, FALSE)

(* a string of n "a"s *)
Long(n) == [i \in 1..n |-> "a"]

(* X-Tenant-ID values: empty, "A-0_1", "a@", and 100 and 101 characters *)
TenantValues ==
    {<<>>, <<"A", "-", "0", "_", "1">>, <<"a", "@">>,
     Long(TenantMaxLen), Long(TenantMaxLen + 1)}

Hdrs == {NoHdr, Hdr(FALSE, <<>>, TRUE)}
          \cup {Hdr(TRUE, v, FALSE) : v \in TenantValues}
          \cup {Hdr(TRUE, v, TRUE) : v \in {<<"A", "-", "0", "_", "1">>, <<"a", "@">>}}

UUIDs == {"u1"}

BuiltinTools == {"echo"}

(* how the execution of a found tool ends *)
ExecOutcomes == {"ok", "import_error", "credential_error", "execution_error"}

(* the except clauses around the body of call_tool: every exception, the
   HTTPException raised for an unknown tool included, becomes an MCP error *)
CallToolExcept(r) ==
    IF r.raised # "none" THEN Response(200, "true") ELSE r

(* call_tool: the handler's result *)
call_tool(regs, project_id, name, exec) ==
    IF name \in BuiltinTools
    THEN Response(200, IF exec = "ok" THEN "false" ELSE "true")
    ELSE IF project_id \in DOMAIN regs /\ get_tool(regs[project_id], name) # NoTool
    THEN CASE exec = "ok" -> Response(200, "false")
           [] exec = "import_error" -> CallToolExcept(Raised("ImportError", 0))
           [] OTHER -> Response(200, "true")
    ELSE CallToolExcept(Raised("HTTPException", 404))

(* call_tool's effect on the registry: a connector tool that is found is
   marked used before anything is executed *)
call_tool_marks(regs, project_id, name) ==
    IF name \notin BuiltinTools /\ project_id \in DOMAIN regs
    THEN [regs EXCEPT ![project_id] = MarkToolUsed(@, name)]
    ELSE regs

(* the except clauses of get_credentials / delete_credentials / store_credentials *)
CredentialsExcept(r) ==
    CASE r.raised = "none" -> r
      [] r.raised = "SecretNotFoundError" -> Raised("HTTPException", 404)
      [] r.raised = "SecretStorageError" -> Raised("HTTPException", 500)
      [] OTHER -> Raised("HTTPException", 500)

(* get_credentials *)
get_credentials(store, connector_name) ==
    IF secret_exists(store, generate_secret_name(connector_name, "api_key", NoSuffix))
    THEN Response(200, "none")
    ELSE IF secret_exists(store, generate_secret_name(connector_name,
                                                      "oauth2_client_id", NoSuffix))
    THEN Response(200, "none")
    ELSE CredentialsExcept(Raised("HTTPException", 404))

CredTypes == {"api_key", "oauth2_client_id", "oauth2_client_secret"}

StoredNames(store, connector_name) ==
    {generate_secret_name(connector_name, t, NoSuffix) : t \in CredTypes} \cap DOMAIN store

(* delete_credentials: [store, handled] *)
delete_credentials(store, connector_name) ==
    LET names == StoredNames(store, connector_name)
    IN [store   |-> [n \in DOMAIN store \ names |-> store[n]],
        handled |-> IF names = {}
                    THEN CredentialsExcept(Raised("HTTPException", 404))
                    ELSE Response(204, "none")]

(* the tags store_credentials writes for an api_key body: dict.get defaults *)
RestApiKeyTags(body) ==
    Tags(IF body.key_name = Null THEN "" ELSE body.key_name,
         IF body.location = Null THEN "header" ELSE body.location,
         IF body.scheme = Null THEN "" ELSE body.scheme,
         Null, Null)

(* ... and for an oauth2_client_credentials body *)
RestOAuthTags(body) ==
    Tags(Null, Null, Null, IF body.token_url = Null THEN "" ELSE body.token_url, "")

(* store_credentials: the store after the request *)
store_credentials(store, connector_name, body) ==
    IF body.auth_type = "api_key"
    THEN store_secret(store, generate_secret_name(connector_name, "api_key", NoSuffix),
                      body.value, "api_key", connector_name,
                      RestApiKeyTags(body), "rest")
    ELSE store_secret(
            store_secret(store,
                         generate_secret_name(connector_name, "oauth2_client_id", NoSuffix),
                         body.client_id, "oauth2_client_id", connector_name,
                         RestOAuthTags(body), "rest"),
            generate_secret_name(connector_name, "oauth2_client_secret", NoSuffix),
            body.client_secret, "oauth2_client_secret", connector_name,
            RestOAuthTags(body), "rest")

(* request bodies of POST /v1/credentials/ ; Null is an absent field *)
ApiKeyBody(key_name, location, scheme) ==
    [auth_type |-> "api_key", value |-> ApiKeyValue, key_name |-> key_name,
     location |-> location, scheme |-> scheme, client_id |-> Null,
     client_secret |-> Null, token_url |-> Null]

OAuthBody(token_url) ==
    [auth_type |-> "oauth2_client_credentials", value |-> Null, key_name |-> Null,
     location |-> Null, scheme |-> Null, client_id |-> "id1",
     client_secret |-> "s1", token_url |-> token_url]

(***************************************************************************)
(* Credential actions                                                      *)
(***************************************************************************)
(* CredentialResolver.resolve_credentials for a tool declaring decl *)
ResolveCredentials(decl, c, outcome) ==
    LET r == resolve_credentials(secrets, oauthCache, decl, c, outcome)
    IN /\ oauthCache' = r.cache
       /\ cred' = [op |-> "resolve", conn |-> c, decl |-> decl, ok |-> r.ok,
                   headers |-> r.headers, query_params |-> r.query_params,
                   cookies |-> r.cookies, oauth_token |-> r.oauth_token,
                   exchanges |-> r.exchanges,
                   hit |-> /\ decl.type = "oauth2_client_credentials"
                           /\ CacheKey(c) \in DOMAIN oauthCache,
                   prev |-> IF /\ cred.op = "resolve" /\ cred.ok /\ cred.conn = c
                               /\ cred.decl.type = "oauth2_client_credentials"
                               /\ decl.type = "oauth2_client_credentials"
                            THEN cred.oauth_token ELSE Null]
       /\ UNCHANGED <<taskVars, secrets, regVars, httpVars>>

(* a direct SecretStorage.store_secret call *)
StoreSecret(c, secret_type, tags) ==
    /\ secrets' = store_secret(secrets, generate_secret_name(c, secret_type, NoSuffix),
                               ApiKeyValue, secret_type, c, tags, "direct")
    /\ cred' = CredRet("store_secret", c, TRUE)
    /\ UNCHANGED <<taskVars, oauthCache, regVars, httpVars>>

(* a direct SecretStorage.delete_secret call: SecretNotFoundError if absent *)
DeleteSecret(c, secret_type) ==
    LET name == generate_secret_name(c, secret_type, NoSuffix)
    IN /\ secrets' = delete_secret(secrets, name)
       /\ cred' = CredRet("delete_secret", c, secret_exists(secrets, name))
       /\ UNCHANGED <<taskVars, oauthCache, regVars, httpVars>>

(* the CLI's "credentials store --auth-type api_key" *)
CliStoreApiKey(c, key_name, location, scheme) ==
    /\ secrets' = store_secret(secrets, generate_secret_name(c, "api_key", NoSuffix),
                               ApiKeyValue, "api_key", c,
                               Tags(key_name, location, scheme, Null, Null), "cli")
    /\ cred' = CredRet("cli_store", c, TRUE)
    /\ UNCHANGED <<taskVars, oauthCache, regVars, httpVars>>

(* CredentialResolver.clear_oauth_cache *)
ClearOAuthCache(c) ==
    /\ oauthCache' = clear_oauth_cache(oauthCache, c)
    /\ cred' = CredRet("clear_oauth_cache", c, TRUE)
    /\ UNCHANGED <<taskVars, secrets, regVars, httpVars>>

(* POST /v1/credentials/ *)
StoreCredentials(hdr, correlation_id, c, body) ==
    LET rq == Request("POST /v1/credentials/", c, Null, Null, hdr)
    IN /\ req' = rq
       /\ resp' = App(rq, correlation_id, Response(201, "none"))
       /\ secrets' = IF Rejected(rq) THEN secrets
                     ELSE store_credentials(secrets, c, body)
       /\ cred' = CredRet("store_credentials", c, ~Rejected(rq))
       /\ UNCHANGED <<taskVars, oauthCache, regVars>>

(* GET /v1/credentials/{connector_name}; ok tells whether a secret was found *)
GetCredentials(hdr, correlation_id, c) ==
    LET rq == Request("GET /v1/credentials/{connector_name}", c, Null, Null, hdr)
    IN /\ req' = rq
       /\ resp' = App(rq, correlation_id, get_credentials(secrets, c))
       /\ cred' = CredRet("get_credentials", c,
                          get_credentials(secrets, c).raised = "none")
       /\ UNCHANGED <<taskVars, secrets, oauthCache, regVars>>

(* DELETE /v1/credentials/{connector_name}; ok tells whether a secret was found *)
DeleteCredentials(hdr, correlation_id, c) ==
    LET rq == Request("DELETE /v1/credentials/{connector_name}", c, Null, Null, hdr)
        r == delete_credentials(secrets, c)
    IN /\ req' = rq
       /\ resp' = App(rq, correlation_id, r.handled)
       /\ secrets' = IF Rejected(rq) THEN secrets ELSE r.store
       /\ cred' = CredRet("delete_credentials", c, StoredNames(secrets, c) # {})
       /\ UNCHANGED <<taskVars, oauthCache, regVars>>

(***************************************************************************)
(* HTTP actions                                                            *)
(***************************************************************************)
(* GET /health/ *)
HealthCheck(hdr, correlation_id) ==
    LET rq == Request("GET /health/", <<>>, Null, Null, hdr)
    IN /\ req' = rq
       /\ resp' = App(rq, correlation_id, Response(200, "none"))
       /\ UNCHANGED <<taskVars, regVars, credVars>>

(* is name a built-in tool or a tool of an enabled connector of the project? *)
KnownTool(regs, project_id, name) ==
    \/ name \in BuiltinTools
    \/ /\ project_id \in DOMAIN regs
       /\ \E i \in 1..Len(regs[project_id]) :
             /\ regs[project_id][i].enabled
             /\ name \in DOMAIN regs[project_id][i].tools

(* how the execution of the named tool may end: a built-in tool returns a
   result or an error result; a connector tool's execution may also fail
   before it starts; nothing is executed for an unknown name *)
ExecsOf(regs, project_id, name) ==
    IF name \in BuiltinTools THEN {"ok", "execution_error"}
    ELSE IF KnownTool(regs, project_id, name) THEN ExecOutcomes
    ELSE {Null}

(* no tool was called more often than the model follows *)
CountsWithin(regs) ==
    \A p \in DOMAIN regs : \A i \in 1..Len(regs[p]) : \A n \in DOMAIN regs[p][i].tools :
       regs[p][i].tools[n].invocation_count <= MaxCalls

(* POST /v1/mcp/tools/call for the default project; a request the tenant
   check rejects never reaches the handler *)
CallTool(hdr, correlation_id, name) ==
    \E exec \in ExecsOf(registries, "default", name) :
        LET rq == Request("POST /v1/mcp/tools/call", <<>>, name, exec, hdr)
        IN /\ req' = rq
           /\ resp' = App(rq, correlation_id,
                          call_tool(registries, "default", name, exec))
           /\ registries' = IF Rejected(rq) THEN registries
                             ELSE call_tool_marks(registries, "default", name)
           /\ CountsWithin(registries')
           /\ UNCHANGED <<taskVars, hotReload, secretsDir, files, watchers, last, snap, credVars>>

(* any other route whose handler raises: an HTTPException, an
   MCPRuntimeException, or an exception nothing below the middleware handles *)
HandlerRaises(hdr, correlation_id, kind, status) ==
    LET rq == Request("any", <<>>, Null, kind, hdr)
    IN /\ req' = rq
       /\ resp' = App(rq, correlation_id, Raised(kind, status))
       /\ UNCHANGED <<taskVars, regVars, credVars>>

(***************************************************************************)
(* Specifications of the credential subsystem and of the HTTP application  *)
(***************************************************************************)
ApiKeyDecls ==
    {ApiKeyAuth("k", loc, sch) : loc \in {"header", "query", "cookie"},
                                 sch \in {Null, "Bearer"}}

(* API keys stored in each of the three ways, resolved for api_key tools *)
ApiKeyNext ==
    \/ \E c \in CredConns, kn \in {Null, "kq"}, loc \in {Null, "query", "cookie"},
          sch \in {Null, "Bearer"} :
          StoreCredentials(NoHdr, "u1", c, ApiKeyBody(kn, loc, sch))
    \/ \E c \in CredConns, kn \in {"authorization", "k"}, loc \in {"header", "query"} :
          CliStoreApiKey(c, kn, loc, Null)
    \/ \E c \in CredConns, tags \in {NoTags, Tags("kq", "query", "", Null, Null)} :
          StoreSecret(c, "api_key", tags)
    \/ \E c \in CredConns : DeleteSecret(c, "api_key")
    \/ \E c \in CredConns, decl \in ApiKeyDecls : ResolveCredentials(decl, c, "fail")

SpecApiKey == Init /\ [][ApiKeyNext]_vars

CredDecls ==
    {NoAuth, ApiKeyAuth("k", "header", Null), OAuth2ClientCredentialsAuth("https")}

(* credentials stored and deleted over REST, single secrets deleted, the
   token cache cleared, and credentials resolved for tools of every auth type *)
CredNext ==
    \/ \E c \in CredConns, body \in {ApiKeyBody(Null, Null, Null), OAuthBody(Null)} :
          StoreCredentials(NoHdr, "u1", c, body)
    \/ \E c \in CredConns : GetCredentials(NoHdr, "u1", c)
    \/ \E c \in CredConns : DeleteCredentials(NoHdr, "u1", c)
    \/ \E c \in CredConns, t \in CredTypes : DeleteSecret(c, t)
    \/ \E c \in CredConns \cup {<<>>} : ClearOAuthCache(c)
    \/ \E c \in CredConns, decl \in CredDecls, outcome \in Tokens \cup {"fail"} :
          ResolveCredentials(decl, c, outcome)

SpecCred == Init /\ [][CredNext]_vars

(* requests with every kind of tenant header against a changing registry *)
HttpNext ==
    \/ \E id \in {"m1", "m3"} : InstallConnectorFromManifest("default", id, TRUE)
    \/ \E n \in ConnNames : DisableConnector("default", n)
    \/ \E hdr \in Hdrs, u \in UUIDs : HealthCheck(hdr, u)
    \/ \E hdr \in Hdrs, u \in UUIDs, name \in BuiltinTools \cup {"t1", "nope"} :
          CallTool(hdr, u, name)
    \/ \E hdr \in Hdrs, u \in UUIDs,
          e \in {<<"HTTPException", 404>>, <<"MCPRuntimeException", 500>>,
                 <<"Exception", 0>>} : HandlerRaises(hdr, u, e[1], e[2])

SpecHttp == Init /\ [][HttpNext]_vars

(***************************************************************************)
(* Properties of the credential resolver                                   *)
(***************************************************************************)
IsOAuthResolve == cred.op = "resolve" /\ cred.decl.type = "oauth2_client_credentials"

Stored(c, secret_type) == generate_secret_name(c, secret_type, NoSuffix) \in DOMAIN secrets

(* C4: a resolution for a connector whose token cache entry is empty, with
   both client secrets stored, makes exactly one token exchange call, and the
   token it returns is the one left in the cache; a resolution that finds a
   cached token, in particular the second of two consecutive resolutions for
   the same connector, makes no exchange call and returns the identical
   token. *)
C4_OneExchangeThenCached ==
    IsOAuthResolve =>
        /\ (~cred.hit /\ Stored(cred.conn, "oauth2_client_id")
                      /\ Stored(cred.conn, "oauth2_client_secret")) =>
              cred.exchanges = 1
        /\ (~cred.hit /\ cred.ok) =>
              /\ cred.exchanges = 1
              /\ CacheKey(cred.conn) \in DOMAIN oauthCache
              /\ oauthCache[CacheKey(cred.conn)] = cred.oauth_token
        /\ cred.hit =>
              /\ cred.ok
              /\ cred.exchanges = 0
              /\ oauthCache[CacheKey(cred.conn)] = cred.oauth_token
        /\ cred.prev # Null =>
              /\ cred.ok
              /\ cred.exchanges = 0
              /\ cred.oauth_token = cred.prev

(* C4 witness: the second of two consecutive resolutions returned the first
   one's token without an exchange *)
C4_Witness ==
    /\ IsOAuthResolve
    /\ cred.prev = "tok2"
    /\ cred.oauth_token = "tok2"
    /\ cred.exchanges = 0

RequiresCredentials == cred.decl.type \in {"api_key", "oauth2_client_credentials"}

(* a secret the tool's auth type needs is not stored for the connector *)
NeededSecretMissing ==
    \/ cred.decl.type = "api_key" /\ ~Stored(cred.conn, "api_key")
    \/ /\ cred.decl.type = "oauth2_client_credentials"
       /\ \/ ~Stored(cred.conn, "oauth2_client_id")
          \/ ~Stored(cred.conn, "oauth2_client_secret")

HasCredentials ==
    \/ cred.headers # NoDict
    \/ cred.query_params # NoDict
    \/ cred.cookies # NoDict
    \/ cred.oauth_token # Null

(* C5, as stated: resolving credentials for a tool that requires credentials
   when a needed secret is not stored for the connector fails with a
   credential resolution error, and a resolution that succeeds never returns
   empty credentials. *)
C5_MissingSecretFails ==
    (cred.op = "resolve" /\ RequiresCredentials) =>
        /\ NeededSecretMissing => ~cred.ok
        /\ cred.ok => HasCredentials

(* C5, amended: the resolution fails when a needed secret is not stored,
   unless the tool uses oauth2_client_credentials and a token is cached for
   the connector: the cached token is then returned without reading the
   secrets. A resolution that succeeds never returns empty credentials. *)
C5_MissingSecretFailsUnlessCached ==
    (cred.op = "resolve" /\ RequiresCredentials) =>
        /\ (NeededSecretMissing /\ ~cred.hit) =>
              /\ ~cred.ok
              /\ ~HasCredentials
              /\ cred.exchanges = 0
        /\ (NeededSecretMissing /\ cred.hit) => cred.ok
        /\ cred.ok => HasCredentials

(* C5 witness: the client id is stored, the client secret is not, no token
   is cached, and the resolution failed *)
C5_Witness ==
    /\ IsOAuthResolve
    /\ ~cred.hit
    /\ Stored(cred.conn, "oauth2_client_id")
    /\ ~Stored(cred.conn, "oauth2_client_secret")
    /\ ~cred.ok

IsQueryKeyResolve ==
    /\ cred.op = "resolve"
    /\ cred.ok
    /\ cred.decl.type = "api_key"
    /\ cred.decl.location = "query"

StoredApiKey == secrets[generate_secret_name(cred.conn, "api_key", NoSuffix)]

(* C6, as stated: for a tool declaring query-located api_key auth with key
   name k, the resolved key is under query_params[k] and not in the headers,
   whichever way the secret was stored. *)
C6_QueryKeyInQueryParams ==
    IsQueryKeyResolve =>
        /\ DOMAIN cred.query_params = {cred.decl.key_name}
        /\ cred.headers = NoDict

(* C6, amended: for a tool declaring query-located api_key auth with key
   name k, the resolved key is under query_params[k] and not in the headers
   or cookies when the stored secret's location tag is absent, empty or
   "query" and its key_name tag is absent, empty or k; the stored tags take
   precedence over the declaration otherwise. *)
C6_QueryKeyUnlessTagged ==
    (/\ IsQueryKeyResolve
     /\ StoredApiKey.tags.location \in {Null, "", "query"}
     /\ StoredApiKey.tags.key_name \in {Null, "", cred.decl.key_name}) =>
        /\ DOMAIN cred.query_params = {cred.decl.key_name}
        /\ cred.headers = NoDict
        /\ cred.cookies = NoDict

(* C6 witness: a key stored over REST with location "query" and no key name
   was resolved into query_params[k] *)
C6_Witness ==
    /\ IsQueryKeyResolve
    /\ StoredApiKey.via = "rest"
    /\ StoredApiKey.tags.location = "query"
    /\ StoredApiKey.tags.key_name = ""
    /\ DOMAIN cred.query_params = {"k"}

(***************************************************************************)
(* Properties of the HTTP application                                      *)
(***************************************************************************)
(* C7, as stated: POST /v1/mcp/tools/call with a name that is neither a
   built-in tool nor a tool of an enabled connector of the project is
   answered with HTTP 404, whereas a failed execution of a known tool is
   answered with HTTP 200 and isError true. *)
C7_UnknownTool404 ==
    (req.route = "POST /v1/mcp/tools/call" /\ resp.status # 400) =>
        /\ req.exec = Null => resp.status = 404
        /\ req.exec \in {"import_error", "credential_error", "execution_error"} =>
              (resp.status = 200 /\ resp.isError = "true")

(* C8, as stated: GET and DELETE /v1/credentials/{connector} answer 404
   whenever neither an API-key secret nor an OAuth2 client-id secret is
   stored for the connector. *)
C8_NothingStored404 ==
    [][\A c \in CredConns :
          (/\ ~Stored(c, "api_key")
           /\ ~Stored(c, "oauth2_client_id")
           /\ \/ GetCredentials(NoHdr, "u1", c)
              \/ DeleteCredentials(NoHdr, "u1", c))
          => resp'.status = 404]_vars

(* C9, as stated: every response carries a non-empty X-Correlation-ID
   header and an X-Process-Time header, whatever its status. *)
C9_EveryResponseHasHeaders ==
    resp.status # 0 =>
        /\ "X-Correlation-ID" \in DOMAIN resp.headers
        /\ "X-Process-Time" \in DOMAIN resp.headers
        /\ resp.headers["X-Correlation-ID"] # ""

(* X-Tenant-ID was sent with a value that passes the format check *)
ValidTenantSent == req.tenant.present /\ _is_valid_tenant_id(req.tenant.value)

(* C10, as stated: a request carrying an X-Tenant-ID header whose value v
   passes the format check receives a response whose X-Tenant-ID is v. *)
C10_TenantEchoed ==
    (resp.status # 0 /\ ValidTenantSent) =>
        /\ "X-Tenant-ID" \in DOMAIN resp.headers
        /\ resp.headers["X-Tenant-ID"] = req.tenant.value

(* C10, amended: a request carrying an X-Tenant-ID header whose value v
   passes the format check, and no Bearer Authorization header, receives a
   response whose X-Tenant-ID is v; with a Bearer Authorization header the
   response carries the placeholder tenant instead. *)
C10_TenantEchoedUnlessBearer ==
    (resp.status # 0 /\ ValidTenantSent) =>
        /\ "X-Tenant-ID" \in DOMAIN resp.headers
        /\ resp.headers["X-Tenant-ID"] =
              IF req.bearer THEN DefaultTenant ELSE req.tenant.value

(* C10 witness: "A-0_1" was sent without a Bearer token and echoed back on a
   response produced from an unhandled exception *)
C10_Witness ==
    /\ req.tenant.present
    /\ req.tenant.value = <<"A", "-", "0", "_", "1">>
    /\ ~req.bearer
    /\ resp.status = 500
    /\ resp.headers["X-Tenant-ID"] = <<"A", "-", "0", "_", "1">>

(***************************************************************************)
(* The stdio server (mcp_stdio_server.py)                                  *)
(***************************************************************************)
MaxLines == 3

(* A line of standard input, by what strip() and json.loads make of it:
   blank (only whitespace), text that is not JSON, a JSON value that is not
   an object, or a JSON object with its id, method and params members
   (Null: the member is absent). *)
Line(kind, id, method, params, tool) ==
    [kind |-> kind, id |-> id, method |-> method, params |-> params, tool |-> tool]

RpcIds == {Null, "1"}

RpcMethods == {Null, "initialize", "tools/list", "tools/call", "resources/list"}

(* params: absent, an object, or a JSON array *)
ParamKinds == {Null, "object", "array"}

StdioTools == BuiltinTools \cup {"t1", "nope"}

Lines ==
    {Line(k, Null, Null, Null, Null) : k \in {"blank", "invalid", "array", "null"}}
    \cup {Line("object", id, m, pk, Null) :
             id \in RpcIds, m \in RpcMethods \ {"tools/call"}, pk \in {Null, "array"}}
    \cup {Line("object", id, "tools/call", "object", t) : id \in RpcIds, t \in StdioTools}
    \cup {Line("object", id, "tools/call", "array", Null) : id \in RpcIds}

(* json.loads: the value, or JSONDecodeError *)
json_loads(line) ==
    IF line.kind = "invalid" THEN [ok |-> FALSE, value |-> line]
    ELSE [ok |-> TRUE, value |-> line]

(* A JSON-RPC message written to stdout: a result or an error *)
RpcResult(id, isError) == [id |-> id, kind |-> "result", code |-> 0, isError |-> isError]

(* _send_error *)
_send_error(request_id, code) ==
    [id |-> request_id, kind |-> "error", code |-> code, isError |-> "none"]

(* What handling one request did: the messages it wrote, whether an
   exception left it, and the registry it left behind *)
Handled(out, raised, regs, watch) ==
    [out |-> out, raised |-> raised, regs |-> regs, watch |-> watch]

(* install_sample_connectors: install_connector_from_file for every file of
   the samples directory, a failing file being skipped *)
RECURSIVE install_sample_connectors(_, _, _, _)
install_sample_connectors(regs, watch, p, paths) ==
    IF paths = {} THEN [regs |-> regs, watch |-> watch]
    ELSE LET path == CHOOSE x \in paths : TRUE
             regs1 == EnsureRegs(regs, p)
             watch1 == EnsureWatch(regs, watch, p)
             c == load_connector_from_file(path, Null)
             next == IF ~LoadOk(path) THEN [regs |-> regs1, watch |-> watch1]
                     ELSE [regs  |-> install_connector(regs1, p, c, TRUE).regs,
                           watch |-> WatchAfterLoad(watch1, p, path)]
         IN install_sample_connectors(next.regs, next.watch, p, paths \ {path})

(* _handle_tools_list: the hot-reload pre-check, the rescan of the samples
   directory in development, then the tools list as a result *)
_handle_tools_list(regs, watch, request_id, development) ==
    LET r1 == IF hotReload
              THEN perform_hot_reload_check(regs, watch, "default")
              ELSE [regs |-> regs, watch |-> watch, names |-> <<>>]
        r2 == IF development
              THEN install_sample_connectors(
                       EnsureRegs(r1.regs, "default"),
                       EnsureWatch(r1.regs, r1.watch, "default"),
                       "default", {path \in Paths : files[path].exists})
              ELSE [regs |-> r1.regs, watch |-> r1.watch]
    IN Handled(<<RpcResult(request_id, "none")>>, FALSE, r2.regs, r2.watch)

(* _handle_tools_call: params.get(...) is evaluated before its try *)
_handle_tools_call(regs, watch, request_id, params, tool, exec) ==
    IF params = "array" THEN Handled(<<>>, TRUE, regs, watch)
    ELSE IF tool \in BuiltinTools
    THEN Handled(<<RpcResult(request_id, exec # "ok")>>, FALSE, regs, watch)
    ELSE IF "default" \in DOMAIN regs /\ get_tool(regs["default"], tool) # NoTool
    THEN Handled(<<RpcResult(request_id, exec # "ok")>>, FALSE,
                 [regs EXCEPT !["default"] = MarkToolUsed(@, tool)], watch)
    ELSE Handled(<<_send_error(request_id, -32601)>>, FALSE, regs, watch)

(* _handle_request: request.get(...) is evaluated before its try, so a JSON
   value that is not an object raises there; inside the try every exception
   becomes a -32603 error *)
_handle_request(regs, watch, request, exec, development) ==
    IF request.kind # "object" THEN Handled(<<>>, TRUE, regs, watch)
    ELSE LET params == IF request.params = Null THEN "object" ELSE request.params
             h == CASE request.method = "initialize" ->
                          Handled(<<RpcResult(request.id, "none")>>, FALSE, regs, watch)
                    [] request.method = "tools/list" ->
                          _handle_tools_list(regs, watch, request.id, development)
                    [] request.method = "tools/call" ->
                          _handle_tools_call(regs, watch, request.id, params,
                                             request.tool, exec)
                    [] OTHER ->
                          Handled(<<_send_error(request.id, -32601)>>, FALSE, regs, watch)
         IN IF h.raised
            THEN Handled(h.out \o <<_send_error(request.id, -32603)>>, FALSE,
                         h.regs, h.watch)
            ELSE h

(* how the execution of the tool a line names may end *)
StdioExecs(line) ==
    IF line.kind # "object" \/ line.method # "tools/call" \/ line.params = "array"
    THEN {Null}
    ELSE IF line.tool \in BuiltinTools THEN {"ok", "execution_error"}
    ELSE IF "default" \in DOMAIN registries
            /\ get_tool(registries["default"], line.tool) # NoTool
    THEN {"ok", "credential_error", "execution_error"}
    ELSE {Null}

(* one turn of run()'s loop on a line that is not the end of the stream *)
ReadLine(line) ==
    /\ stdio.pc = "reading"
    /\ stdio.n < MaxLines
    /\ \E exec \in StdioExecs(line) :
          LET parsed == json_loads(line)
              h == IF line.kind = "blank" THEN Handled(<<>>, FALSE, registries, watchers)
                   ELSE IF ~parsed.ok
                   THEN Handled(<<_send_error(Null, -32700)>>, FALSE, registries, watchers)
                   ELSE _handle_request(registries, watchers, parsed.value, exec,
                                        stdio.development)
          IN /\ stdio' = [stdio EXCEPT !.pc = IF h.raised THEN "stopped" ELSE "reading",
                                       !.n = @ + 1,
                                       !.line = line,
                                       !.wrote = h.out]
             /\ registries' = h.regs
             /\ watchers' = h.watch
             /\ last' = Ret("stdio", Null, TRUE, Null, <<>>)
             /\ snap' = NoSnap
             /\ UNCHANGED <<hotReload, secretsDir, files, credVars, httpVars, reloading, resolving>>

(* readline() returns "": the end of the stream *)
EndOfStream ==
    /\ stdio.pc = "reading"
    /\ stdio' = [stdio EXCEPT !.pc = "stopped", !.line = Line("eof", Null, Null, Null, Null),
                              !.wrote = <<>>]
    /\ UNCHANGED <<regVars, credVars, httpVars, reloading, resolving>>

StdioInit ==
    /\ RegInit /\ CredInit /\ HttpInit
    /\ stdio \in {[NoStdio EXCEPT !.development = d] : d \in BOOLEAN}
    /\ reloading = NoReload
    /\ resolving = [t \in Resolvers |-> NoResolve]

(* lines arrive on standard input while sample files are written *)
StdioNext ==
    \/ \E line \in Lines : ReadLine(line)
    \/ EndOfStream
    \/ \E path \in Paths, c \in {"m1", "m3", "bad"}, t \in Times : WriteFile(path, c, t)

SpecStdio == StdioInit /\ [][StdioNext]_vars

(* C11: the stdio server keeps reading lines until end-of-stream: a non-blank
   line that is not valid JSON yields a -32700 error response with a null id,
   and any exception raised while handling a line that did parse as JSON
   yields a -32603 error response, after which the next line is read. *)
C11_ReadsUntilEndOfStream ==
    /\ stdio.pc = "stopped" => stdio.line.kind = "eof"
    /\ stdio.line.kind = "invalid" => stdio.wrote = <<_send_error(Null, -32700)>>
    /\ stdio.line.kind \in {"array", "null"} =>
          /\ Len(stdio.wrote) = 1
          /\ stdio.wrote[1].kind = "error"
          /\ stdio.wrote[1].code = -32603
    /\ (stdio.line.kind = "object" /\ stdio.line.method = "tools/call"
          /\ stdio.line.params = "array") =>
          stdio.wrote = <<_send_error(stdio.line.id, -32603)>>

(***************************************************************************)
(* The hot-reload routes of /v1/runtime (api/runtime.py)                   *)
(***************************************************************************)
ReloadRoutes ==
    {"POST /v1/runtime/reload/{project_id}/check",
     "POST /v1/runtime/reload/{project_id}/{connector_name}",
     "POST /v1/runtime/reload/{project_id}"}

(* what a route handler did: its response or exception, and the registry *)
Routed(handled, regs, watch, names) ==
    [handled |-> handled, regs |-> regs, watch |-> watch, names |-> names]

(* check_connector_updates: a result either way, never an exception *)
check_connector_updates(regs, watch, project_id) ==
    IF ~hotReload THEN Routed(Response(200, "none"), regs, watch, <<>>)
    ELSE Routed(Response(200, "none"), regs, watch, check_for_updates(regs, project_id))

(* hot_reload_connector of api/runtime.py: 400 raised before the try, 404
   raised inside it and re-raised by "except HTTPException" *)
runtime_hot_reload_connector(regs, watch, project_id, connector_name) ==
    IF ~hotReload THEN Routed(Raised("HTTPException", 400), regs, watch, <<>>)
    ELSE LET r == hot_reload_connector(regs, watch, project_id, connector_name)
         IN IF r.ok THEN Routed(Response(200, "none"), r.regs, r.watch, <<connector_name>>)
            ELSE Routed(Raised("HTTPException", 404), r.regs, r.watch, <<>>)

(* hot_reload_all_connectors *)
hot_reload_all_connectors(regs, watch, project_id) ==
    IF ~hotReload THEN Routed(Raised("HTTPException", 400), regs, watch, <<>>)
    ELSE LET r == perform_hot_reload_check(regs, watch, project_id)
         IN Routed(Response(200, "none"), r.regs, r.watch, r.names)

(* a request to one of the three routes, through the middleware stack *)
ReloadRequest(hdr, correlation_id, route, r) ==
    LET rq == Request(route, <<>>, Null, Null, hdr)
    IN /\ req' = rq
       /\ resp' = App(rq, correlation_id, r.handled)
       /\ registries' = IF Rejected(rq) THEN registries ELSE r.regs
       /\ watchers' = IF Rejected(rq) THEN watchers ELSE r.watch
       /\ last' = Ret(route, Null, ~Rejected(rq), Null,
                      IF Rejected(rq) THEN <<>> ELSE r.names)
       /\ snap' = NoSnap
       /\ UNCHANGED <<taskVars, hotReload, secretsDir, files, credVars>>

(* POST /v1/runtime/reload/{project_id}/check *)
CheckConnectorUpdates(hdr, correlation_id, p) ==
    ReloadRequest(hdr, correlation_id, "POST /v1/runtime/reload/{project_id}/check",
                  check_connector_updates(registries, watchers, p))

(* POST /v1/runtime/reload/{project_id}/{connector_name} *)
RuntimeHotReloadConnector(hdr, correlation_id, p, name) ==
    ReloadRequest(hdr, correlation_id,
                  "POST /v1/runtime/reload/{project_id}/{connector_name}",
                  runtime_hot_reload_connector(registries, watchers, p, name))

(* POST /v1/runtime/reload/{project_id} *)
HotReloadAllConnectors(hdr, correlation_id, p) ==
    ReloadRequest(hdr, correlation_id, "POST /v1/runtime/reload/{project_id}",
                  hot_reload_all_connectors(registries, watchers, p))

(* the three routes called while connectors are installed from files that
   are rewritten *)
RuntimeNext ==
    \/ \E path \in Paths, e \in BOOLEAN : InstallConnectorFromFile("default", path, e)
    \/ \E path \in Paths, c \in Contents, t \in Times : WriteFile(path, c, t)
    \/ \E hdr \in {NoHdr, Hdr(TRUE, <<"a", "@">>, FALSE)}, u \in UUIDs,
          p \in Projects \cup {"none"} : CheckConnectorUpdates(hdr, u, p)
    \/ \E hdr \in {NoHdr, Hdr(TRUE, <<"a", "@">>, FALSE)}, u \in UUIDs,
          p \in Projects \cup {"none"}, n \in ConnNames :
          RuntimeHotReloadConnector(hdr, u, p, n)
    \/ \E hdr \in {NoHdr, Hdr(TRUE, <<"a", "@">>, FALSE)}, u \in UUIDs,
          p \in Projects \cup {"none"} : HotReloadAllConnectors(hdr, u, p)

SpecRuntime == Init /\ [][RuntimeNext]_vars

(* C12: when hot-reload is disabled in configuration, each of
   POST /v1/runtime/reload/{project}/check,
   POST /v1/runtime/reload/{project}/{connector} and
   POST /v1/runtime/reload/{project} responds with HTTP 400. *)
C12_DisabledReload400 ==
    (~hotReload /\ req.route \in ReloadRoutes) => resp.status = 400

(***************************************************************************)
(* The local secret store used directly (core/local_secrets.py)            *)
(***************************************************************************)
MaxSecrets == 2

(* connector names with "@", "/" and upper-case letters: "c" and "@A/b" *)
SecretConns == {<<"c">>, <<"@", "A", "/", "b">>}

SecretSuffixes == {NoSuffix, <<"P", "/", "1">>}

SecretValues == {"v1", "v2"}

SecretTags == {NoTags, Tags("k", "query", Null, Null, Null)}

SecretNames ==
    {generate_secret_name(c, "api_key", sfx) : c \in SecretConns, sfx \in SecretSuffixes}
    \cup {<<"nonexistent">>}

(* What a secret store call returned: ok is FALSE when it raised
   SecretNotFoundError (or, for secret_exists, returned false); deleted tells
   whether the call just before was a delete_secret of the same name that
   succeeded. *)
SecretRet(op, name, ok, value, metadata) ==
    [op |-> op, name |-> name, ok |-> ok, value |-> value, metadata |-> metadata,
     conn |-> <<>>, secret_type |-> Null, suffix |-> NoSuffix,
     deleted |-> cred.op = "delete_secret" /\ cred.ok /\ cred.name = name]

(* store_secret under the name generate_secret_name gives *)
StoreSecretAs(c, secret_type, suffix, value, tags) ==
    LET name == generate_secret_name(c, secret_type, suffix)
    IN /\ name \in DOMAIN secrets \/ Cardinality(DOMAIN secrets) < MaxSecrets
       /\ secrets' = store_secret(secrets, name, value, secret_type, c, tags, "direct")
       /\ cred' = [SecretRet("store_secret", name, TRUE, value,
                             SecretMetadata(name, secret_type, c, tags))
                      EXCEPT !.conn = c, !.secret_type = secret_type,
                             !.suffix = suffix]
       /\ UNCHANGED <<taskVars, oauthCache, regVars, httpVars>>

(* get_secret *)
GetSecret(name) ==
    LET r == get_secret(secrets, name)
    IN /\ cred' = SecretRet("get_secret", name, r.found, r.value, r.metadata)
       /\ UNCHANGED <<taskVars, secrets, oauthCache, regVars, httpVars>>

(* secret_exists *)
SecretExists(name) ==
    /\ cred' = SecretRet("secret_exists", name, secret_exists(secrets, name), Null,
                         SecretMetadata(name, Null, <<>>, NoTags))
    /\ UNCHANGED <<taskVars, secrets, oauthCache, regVars, httpVars>>

(* delete_secret: SecretNotFoundError for a name that is not stored *)
DeleteSecretNamed(name) ==
    /\ secrets' = IF name \in DOMAIN secrets THEN delete_secret(secrets, name)
                  ELSE secrets
    /\ cred' = SecretRet("delete_secret", name, name \in DOMAIN secrets, Null,
                         SecretMetadata(name, Null, <<>>, NoTags))
    /\ UNCHANGED <<taskVars, oauthCache, regVars, httpVars>>

SecretNext ==
    \/ \E c \in SecretConns, sfx \in SecretSuffixes, v \in SecretValues,
          tags \in SecretTags : StoreSecretAs(c, "api_key", sfx, v, tags)
    \/ \E n \in SecretNames : GetSecret(n)
    \/ \E n \in SecretNames : SecretExists(n)
    \/ \E n \in SecretNames : DeleteSecretNamed(n)

SpecSecrets == Init /\ [][SecretNext]_vars

(* the call that a step made on name n *)
Called(op, n) == cred'.op = op /\ cred'.name = n

(* C13: in one local secret store instance, after store_secret(n, v, ...) and
   until n is deleted, secret_exists(n) is true and get_secret(n) returns v
   with the stored metadata; after delete_secret(n), secret_exists(n) is
   false and get_secret(n) fails with NotFound; delete_secret of a name that
   is not stored fails with NotFound. *)
C13_StoreGetDelete ==
    [][\A n \in SecretNames :
          /\ Called("store_secret", n) =>
                /\ secret_exists(secrets', n)
                /\ get_secret(secrets', n).found
                /\ get_secret(secrets', n).value = cred'.value
                /\ get_secret(secrets', n).metadata = cred'.metadata
          /\ (secret_exists(secrets, n) /\ ~Called("store_secret", n)
                 /\ ~Called("delete_secret", n)) =>
                /\ secret_exists(secrets', n)
                /\ get_secret(secrets', n) = get_secret(secrets, n)
          /\ (Called("get_secret", n) \/ Called("secret_exists", n)) =>
                cred'.ok = secret_exists(secrets, n)
          /\ (Called("delete_secret", n) /\ secret_exists(secrets, n)) =>
                /\ cred'.ok
                /\ ~secret_exists(secrets', n)
                /\ ~get_secret(secrets', n).found
          /\ (Called("delete_secret", n) /\ ~secret_exists(secrets, n)) =>
                /\ ~cred'.ok
                /\ secrets' = secrets
          /\ (~secret_exists(secrets, n) /\ ~Called("store_secret", n)) =>
                ~secret_exists(secrets', n)]_vars

(* C13 witness: get_secret fails with NotFound for a name right after that
   name, stored before, was deleted while another secret stays stored *)
C13_Witness ==
    /\ cred.op = "get_secret"
    /\ ~cred.ok
    /\ cred.deleted
    /\ secrets # NoSecrets

(* the name character by character: "@" dropped, "/" turned into "-", every
   other character lower-cased *)
RECURSIVE Canonical(_)
Canonical(s) ==
    IF s = <<>> THEN <<>>
    ELSE (CASE Head(s) = "@" -> <<>>
            [] Head(s) = "/" -> <<"-">>
            [] OTHER -> <<LowerChar(Head(s))>>) \o Canonical(Tail(s))

(* the name character by character: "@" and "/" dropped, the rest lower-cased *)
RECURSIVE Stripped(_)
Stripped(s) ==
    IF s = <<>> THEN <<>>
    ELSE (IF Head(s) \in {"@", "/"} THEN <<>> ELSE <<LowerChar(Head(s))>>)
         \o Stripped(Tail(s))

(* connector_name + "-" + secret_type [+ "-" + suffix] *)
Joined(connector_name, secret_type, suffix) ==
    connector_name \o <<"-", secret_type>>
        \o (IF suffix = NoSuffix THEN <<>> ELSE <<"-">> \o suffix)

(* C14, as stated: generate_secret_name(connector_name, secret_type, suffix?)
   equals lower(connector_name + "-" + secret_type [+ "-" + suffix]) with
   every '@' and '/' character removed. *)
C14_NameStripsSlash ==
    cred.op = "store_secret" =>
        cred.name = Stripped(Joined(cred.conn, cred.secret_type, cred.suffix))

(* C14, amended: generate_secret_name(connector_name, secret_type, suffix?)
   equals lower(connector_name + "-" + secret_type [+ "-" + suffix]) with
   every '@' removed and every '/' replaced by '-'; it depends on its
   arguments alone. *)
C14_NameReplacesSlash ==
    /\ cred.op = "store_secret" =>
          cred.name = Canonical(Joined(cred.conn, cred.secret_type, cred.suffix))
    /\ \A c \in SecretConns, t \in SecretTypes, sfx \in SecretSuffixes :
          generate_secret_name(c, t, sfx) = Canonical(Joined(c, t, sfx))

(* C14 witness: a secret was stored for "@A/b" with suffix "P/1" under the
   name "a-b-api_key-p-1" *)
C14_Witness ==
    /\ cred.op = "store_secret"
    /\ cred.conn = <<"@", "A", "/", "b">>
    /\ cred.suffix = <<"P", "/", "1">>
    /\ cred.name = <<"a", "-", "b", "-", "api_key", "-", "p", "-", "1">>

(***************************************************************************)
(* hot_reload_connector lock section by lock section                       *)
(*                                                                         *)
(* The method takes the registry lock to look the connector up, releases   *)
(* it, loads the file, and takes the lock again inside install_connector.  *)
(* Between the two sections another caller of the registry may run.        *)
(***************************************************************************)
(* the first lock section: the look-up, and what it keeps of the connector *)
BeginHotReload(p, name) ==
    /\ reloading.pc = "idle"
    /\ IF /\ hotReload
          /\ p \in DOMAIN registries
          /\ HasConnector(registries[p], name)
          /\ get_connector(registries[p], name).file_path # Null
       THEN LET old == get_connector(registries[p], name)
            IN /\ reloading' = [pc |-> "loading", p |-> p, name |-> name,
                                file_path |-> old.file_path, config |-> old.config,
                                enabled |-> old.enabled,
                                regs |-> registries, watch |-> watchers]
               /\ last' = Ret("hot_reload_begin", name, TRUE, Null, <<>>)
       ELSE /\ reloading' = reloading
            /\ last' = Ret("hot_reload_connector", name, FALSE, Null, <<>>)
    /\ snap' = NoSnap
    /\ UNCHANGED <<hotReload, secretsDir, files, registries, watchers, credVars, httpVars,
                   stdio, resolving>>

(* the rest: load_connector_from_file outside the lock, then
   install_connector; any exception makes the call return false *)
finish_hot_reload(regs, watch, t) ==
    IF ~LoadOk(t.file_path) THEN [regs |-> regs, watch |-> watch, ok |-> FALSE]
    ELSE LET new == [load_connector_from_file(t.file_path, t.config)
                        EXCEPT !.enabled = t.enabled]
             watch1 == WatchAfterLoad(watch, t.p, t.file_path)
             ins == install_connector(regs, t.p, new, TRUE)
         IN [regs |-> ins.regs, watch |-> watch1, ok |-> ins.err = Null]

FinishHotReload ==
    /\ reloading.pc = "loading"
    /\ LET r == finish_hot_reload(registries, watchers, reloading)
       IN /\ registries' = r.regs
          /\ watchers' = r.watch
          /\ last' = Ret("hot_reload_connector", reloading.name, r.ok, Null, <<>>)
    /\ reloading' = NoReload
    /\ snap' = NoSnap
    /\ UNCHANGED <<hotReload, secretsDir, files, credVars, httpVars, stdio, resolving>>

(* at most one other registry operation runs while a reload is between its
   lock sections *)
MayOverlap == reloading.pc = "idle" \/ last.op = "hot_reload_begin"

(* a reload of a file-backed connector overlapped by an uninstall, an
   enable or a disable *)
ConcNext ==
    \/ \E path \in Paths, c \in {"m1", "m2", "bad"}, t \in Times :
          reloading.pc = "idle" /\ WriteFile(path, c, t)
    \/ \E path \in Paths, e \in BOOLEAN :
          reloading.pc = "idle" /\ InstallConnectorFromFile("default", path, e)
    \/ \E n \in {"a"} : BeginHotReload("default", n)
    \/ FinishHotReload
    \/ \E n \in {"a"} : MayOverlap /\ UninstallConnector("default", n)
    \/ \E n \in {"a"} : MayOverlap /\ EnableConnector("default", n)
    \/ \E n \in {"a"} : MayOverlap /\ DisableConnector("default", n)

SpecConc == Init /\ [][ConcNext]_vars

(* an uninstall, enable or disable as a function of the registry *)
ApplyOp(op, name, regs, watch, p) ==
    CASE op = "uninstall_connector" ->
            [regs  |-> uninstall_connector(regs, watch, p, name).regs,
             watch |-> uninstall_connector(regs, watch, p, name).watch]
      [] op \in {"enable_connector", "disable_connector"} ->
            [regs  |-> IF p \in DOMAIN regs /\ HasConnector(regs[p], name)
                       THEN [regs EXCEPT ![p] =
                                SetEnabled(@, name, op = "enable_connector")]
                       ELSE regs,
             watch |-> watch]
      [] OTHER -> [regs |-> regs, watch |-> watch]

(* the registry after the reload and the operation ran one after the other *)
SerialOutcomes(t, op, name) ==
    LET reloadFirst == hot_reload_connector(t.regs, t.watch, t.p, t.name)
        opFirst == ApplyOp(op, name, t.regs, t.watch, t.p)
        reloadNext == hot_reload_connector(opFirst.regs, opFirst.watch, t.p, t.name)
        opNext == ApplyOp(op, name, reloadFirst.regs, reloadFirst.watch, t.p)
    IN {<<opNext.regs, opNext.watch>>, <<reloadNext.regs, reloadNext.watch>>}

(* C15: every mutating registry operation (install, uninstall, enable,
   disable, hot-reload) does all its reads and writes of registry state under
   the single registry mutex, so a concurrent execution of these operations
   ends in a state that some serial order of the same operations produces:
   when a hot reload finishes that one uninstall, enable or disable
   overlapped, the registry is what the two produce in one of the two orders. *)
C15_SerialOutcome ==
    [][(reloading.pc = "loading" /\ reloading'.pc = "idle") =>
          <<registries', watchers'>> \in SerialOutcomes(reloading, last.op, last.arg)]_vars

(* C16: once uninstall_connector(project, c) has returned true, c stays
   absent from the project's registry until a later install call for c is
   made; a hot_reload_connector(project, c) that was already in progress when
   the uninstall ran does not put c back. *)
C16_UninstallSticks ==
    [][(/\ last.op = "uninstall_connector"
        /\ last.ok
        /\ ~(/\ last'.op \in {"install_connector", "install_connector_from_manifest",
                              "install_connector_from_file"}
             /\ last'.arg = last.arg)) =>
          \A p \in DOMAIN registries' : ~HasConnector(registries'[p], last.arg)]_vars

(***************************************************************************)
(* _resolve_oauth2_credentials await by await                              *)
(*                                                                         *)
(* The coroutine looks the token cache up, and on a miss awaits the secret *)
(* store and then the token endpoint before it writes the cache; other     *)
(* coroutines of the event loop run while it waits for the endpoint.       *)
(***************************************************************************)
(* BeginResolve that never finds a cached token *)
BeginResolve_noCache(r, decl, c) ==
    /\ resolving[r].pc # "exchanging"
    /\ LET before == _resolve_oauth2_credentials(secrets, NoCache, decl, c, "fail")
           call == [NoResolve EXCEPT !.conn = c]
       IN resolving' = [resolving EXCEPT ![r] =
             IF before.exchanges = 0 THEN [call EXCEPT !.pc = "failed"]
             ELSE [call EXCEPT !.pc = "exchanging"]]
    /\ UNCHANGED <<regVars, credVars, httpVars, stdio, reloading>>

(* up to `await self._request_oauth2_token(...)`: a cache hit returns, a
   missing secret or token URL raises, anything else goes to the endpoint;
   token, returned, exchanges and hit describe this call only *)
BeginResolve(r, decl, c) ==
    /\ resolving[r].pc # "exchanging"
    /\ LET before == _resolve_oauth2_credentials(secrets, oauthCache, decl, c, "fail")
           call == [NoResolve EXCEPT !.conn = c]
       IN resolving' = [resolving EXCEPT ![r] =
             IF before.ok
             THEN [call EXCEPT !.pc = "done", !.hit = TRUE,
                               !.returned = before.oauth_token]
             ELSE IF before.exchanges = 0 THEN [call EXCEPT !.pc = "failed"]
             ELSE [call EXCEPT !.pc = "exchanging"]]
    /\ UNCHANGED <<regVars, credVars, httpVars, stdio, reloading>>

(* the endpoint answers: the token is cached and returned, or the call raises;
   last marks the call whose write of the cache entry is the latest *)
FinishExchange(r, outcome) ==
    /\ resolving[r].pc = "exchanging"
    /\ LET c == resolving[r].conn
           n == resolving[r].exchanges + 1
       IN IF outcome = "fail"
          THEN /\ resolving' = [resolving EXCEPT ![r].pc = "failed", ![r].exchanges = n]
               /\ oauthCache' = oauthCache
          ELSE LET cache == CacheToken(oauthCache, CacheKey(c), outcome)
                   res == Resolved("oauth2_client_credentials",
                                   Dict1("Authorization", <<"Bearer", outcome>>),
                                   NoDict, NoDict, outcome, n, cache)
               IN /\ oauthCache' = res.cache
                  /\ resolving' = [t \in Resolvers |->
                        IF t = r
                        THEN [resolving[r] EXCEPT !.pc = "done", !.token = outcome,
                                                  !.exchanges = res.exchanges,
                                                  !.returned = res.oauth_token,
                                                  !.last = TRUE]
                        ELSE IF resolving[t].conn = c
                        THEN [resolving[t] EXCEPT !.last = FALSE]
                        ELSE resolving[t]]
    /\ UNCHANGED <<regVars, secrets, cred, httpVars, stdio, reloading>>

RaceConns == {<<"c">>}

(* OAuth2 credentials stored, and three callers resolving them *)
RaceNext ==
    \/ \E c \in RaceConns : StoreCredentials(NoHdr, "u1", c, OAuthBody("https"))
    \/ \E r \in Resolvers, c \in RaceConns :
          BeginResolve(r, OAuth2ClientCredentialsAuth(Null), c)
    \/ \E r \in Resolvers, outcome \in Tokens \cup {"fail"} : FinishExchange(r, outcome)

SpecRace == Init /\ [][RaceNext]_vars

Missed(r) == resolving[r].pc = "done" /\ ~resolving[r].hit

(* C17: when two invocations for the same connector resolve OAuth2
   credentials concurrently while the cache entry is empty, both can miss the
   cache and each performs its own token exchange, one per resolver and never
   more; each returns the token it obtained, the cache ends up holding the
   token written last, and every later resolution returns the cached token
   without an exchange. *)
C17_RaceThenCached ==
    /\ [](\A r \in Resolvers :
            /\ resolving[r].exchanges <= 1
            /\ Missed(r) => /\ resolving[r].exchanges = 1
                            /\ resolving[r].returned = resolving[r].token
            /\ (resolving[r].last /\ resolving[r].pc # "exchanging") =>
                  /\ CacheKey(resolving[r].conn) \in DOMAIN oauthCache
                  /\ oauthCache[CacheKey(resolving[r].conn)] = resolving[r].token)
    /\ [][\A r \in Resolvers, c \in RaceConns :
            (/\ CacheKey(c) \in DOMAIN oauthCache
             /\ resolving[r].pc # "exchanging"
             /\ resolving'[r] # resolving[r]
             /\ resolving'[r].conn = c
             /\ \A t \in Resolvers \ {r} : resolving'[t] = resolving[t]) =>
                /\ resolving'[r].pc = "done"
                /\ resolving'[r].hit
                /\ resolving'[r].returned = oauthCache[CacheKey(c)]
                /\ resolving'[r].exchanges = 0
                /\ oauthCache' = oauthCache]_vars

(* two callers missed and exchanged, the third came later and was served the
   token of the one that wrote last *)
C17_Witness ==
    /\ Missed("r1") /\ Missed("r2")
    /\ resolving["r1"].conn = resolving["r2"].conn
    /\ resolving["r1"].token # resolving["r2"].token
    /\ resolving["r2"].last /\ ~resolving["r1"].last
    /\ resolving["r3"].pc = "done" /\ resolving["r3"].hit
    /\ resolving["r3"].returned = resolving["r2"].token

(***************************************************************************)
(* Hot reload of connectors installed with a config override               *)
(***************************************************************************)
(* the config argument of install_connector_from_file / _from_manifest *)
Configs == {Null, "cfg1"}

(* connectors installed from files and from manifests with and without a
   config override, uninstalled and hot-reloaded while the files change *)
ReloadNext ==
    \/ \E path \in Paths, c \in Contents, t \in Times : WriteFile(path, c, t)
    \/ \E path \in Paths : DeleteFile(path)
    \/ \E p \in Projects, path \in Paths, config \in Configs, e \in BOOLEAN :
          InstallConnectorFromFileWith(p, path, config, e)
    \/ \E p \in Projects, id \in ManifestIds, config \in Configs, e \in BOOLEAN :
          InstallConnectorFromManifestWith(p, id, config, e)
    \/ \E p \in Projects, n \in ConnNames : UninstallConnector(p, n)
    \/ \E p \in Projects, n \in ConnNames : HotReloadConnector(p, n)
    \/ \E p \in Projects : PerformHotReloadCheck(p)

SpecReload == Init /\ [][ReloadNext]_vars

(* the names installed in a project, and the file paths behind them *)
InstalledNames(regs, p) ==
    IF p \in DOMAIN regs THEN {regs[p][i].name : i \in 1..Len(regs[p])} ELSE {}

InstalledPaths(regs, p) ==
    IF p \in DOMAIN regs
    THEN {regs[p][i].file_path : i \in 1..Len(regs[p])} \ {Null}
    ELSE {}

(* C18: hot_reload_connector never changes a connector's enabled flag or
   config: after it returns true, every connector that was installed before
   the call has the enabled value and the config it had before it. *)
C18_ReloadKeepsEnabledAndConfig ==
    [][(last'.op = "hot_reload_connector" /\ last'.ok) =>
          \A p \in Projects :
             \A n \in InstalledNames(registries, p) \cap InstalledNames(registries', p) :
                /\ get_connector(registries'[p], n).enabled =
                      get_connector(registries[p], n).enabled
                /\ get_connector(registries'[p], n).config =
                      get_connector(registries[p], n).config]_vars

(* C19: after hot_reload_connector(project, c) returns true and the file is
   not modified again, check_for_updates(project) no longer reports c, also
   when the reloaded file declares a connector name different from c. *)
C19_ReloadedNotReported ==
    (last.op = "hot_reload_connector" /\ last.ok) =>
       \A p \in Projects :
          \A i \in 1..Len(check_for_updates(registries, p)) :
             check_for_updates(registries, p)[i] # last.arg

(* C20: for every project, after any sequence of load, install, uninstall
   and hot-reload operations, the project's set of watched file paths equals
   the set of file_path values of the file-backed connectors currently
   installed in that project. *)
C20_WatchedAreInstalledPaths ==
    \A p \in DOMAIN watchers : watchers[p] = InstalledPaths(registries, p)

(***************************************************************************)
(* GET /v1/mcp/tools                                                       *)
(***************************************************************************)
(* list_tools up to its listing: the hot-reload pre-check when HOT_RELOAD
   is set, then in development the rescan of the samples directory, which
   installs every sample file with enabled=True *)
list_tools(regs, watch, p, development) ==
    LET r1 == IF hotReload
              THEN perform_hot_reload_check(regs, watch, p)
              ELSE [regs |-> regs, watch |-> watch, names |-> <<>>]
    IN IF development
       THEN install_sample_connectors(EnsureRegs(r1.regs, p),
                                      EnsureWatch(r1.regs, r1.watch, p),
                                      p, {path \in Paths : files[path].exists})
       ELSE [regs |-> r1.regs, watch |-> r1.watch]

(* the connectors whose tools the response lists *)
ListedConnectors(regs, p) ==
    IF p \in DOMAIN regs
    THEN SelectSeq([i \in 1..Len(regs[p]) |-> regs[p][i].name],
                   LAMBDA n : get_connector(regs[p], n).enabled)
    ELSE <<>>

(* the route handler; Settings.is_development() is the flag the stdio server
   reads as well *)
ListTools(p) ==
    LET r == list_tools(registries, watchers, p, stdio.development)
    IN /\ registries' = r.regs
       /\ watchers' = r.watch
       /\ last' = Ret("list_tools", p, TRUE, Null, ListedConnectors(r.regs, p))
       /\ snap' = NoSnap
       /\ UNCHANGED <<taskVars, hotReload, secretsDir, files, credVars, httpVars>>

(* sample files written, connectors installed from them, disabled and enabled,
   and tools listed with hot-reload passes in between *)
ListingNext ==
    \/ \E path \in Paths, c \in Contents, t \in Times : WriteFile(path, c, t)
    \/ \E p \in Projects, path \in Paths, e \in BOOLEAN :
          InstallConnectorFromFile(p, path, e)
    \/ \E p \in Projects, n \in ConnNames : DisableConnector(p, n)
    \/ \E p \in Projects, n \in ConnNames : EnableConnector(p, n)
    \/ \E p \in Projects : ListTools(p)
    \/ \E p \in Projects : PerformHotReloadCheck(p)

SpecListing == StdioInit /\ [][ListingNext]_vars

(* C21: after disable_connector(project, c) returns true, connector c stays
   disabled until enable_connector(project, c) is called: a tool listing or a
   hot-reload pass that follows the disable leaves c disabled and out of the
   listing. *)
C21_DisabledUntilEnabled ==
    [][(/\ last.op = "disable_connector"
        /\ last.ok
        /\ last'.op \in {"list_tools", "perform_hot_reload_check"}) =>
          \A p \in Projects :
             /\ HasConnector(registries'[p], last.arg) =>
                   ~get_connector(registries'[p], last.arg).enabled
             /\ last'.op = "list_tools" =>
                   \A i \in 1..Len(last'.names) : last'.names[i] # last.arg]_vars

(***************************************************************************)
(* load_connector_from_file and the exceptions it raises                   *)
(***************************************************************************)
NoException == [kind |-> "none", error_type |-> Null, status_code |-> 0]

MCPRuntimeException(error_type, status_code) ==
    [kind |-> "MCPRuntimeException", error_type |-> error_type,
     status_code |-> status_code]

(* what the body of the try raises: FILE_NOT_FOUND for a missing file, a
   pydantic ValidationError for text that is no valid manifest *)
LoadBodyRaises(path) ==
    IF ~files[path].exists THEN MCPRuntimeException("FILE_NOT_FOUND", 404)
    ELSE IF files[path].content \notin ManifestIds
    THEN [kind |-> "ValidationError", error_type |-> Null, status_code |-> 0]
    ELSE NoException

(* the except clauses in their order: ValidationError, yaml.YAMLError, then
   Exception, which MCPRuntimeException derives from *)
LoadExcept(e) ==
    CASE e.kind = "none" -> NoException
      [] e.kind = "ValidationError" -> MCPRuntimeException("VALIDATION_ERROR", 400)
      [] e.kind = "YAMLError" -> MCPRuntimeException("YAML_ERROR", 400)
      [] OTHER -> MCPRuntimeException("LOAD_ERROR", 500)

(* a direct call of InternalRegistry.load_connector_from_file: the path is
   watched when the load succeeds, nothing is installed *)
LoadConnectorFromFile(p, path) ==
    LET e == LoadExcept(LoadBodyRaises(path))
    IN /\ watchers' = IF e.kind = "none" THEN WatchAfterLoad(watchers, p, path)
                      ELSE watchers
       /\ last' = Ret("load_connector_from_file", path, e.kind = "none",
                      e.error_type, <<>>) @@ [status_code |-> e.status_code]
       /\ snap' = NoSnap
       /\ UNCHANGED <<taskVars, hotReload, secretsDir, files, registries, credVars, httpVars>>

(* files written and deleted, loaded directly and installed *)
LoadNext ==
    \/ \E path \in Paths, c \in Contents, t \in Times : WriteFile(path, c, t)
    \/ \E path \in Paths : DeleteFile(path)
    \/ \E p \in Projects : CreateProjectRegistry(p)
    \/ \E p \in Projects, path \in Paths : LoadConnectorFromFile(p, path)
    \/ \E p \in Projects, path \in Paths, e \in BOOLEAN :
          InstallConnectorFromFile(p, path, e)
    \/ \E p \in Projects, n \in ConnNames : UninstallConnector(p, n)

SpecLoad == Init /\ [][LoadNext]_vars

(* C22: load_connector_from_file called with a path that does not exist
   fails with the not-found-kind error (FILE_NOT_FOUND, status 404), not with
   the generic load error (LOAD_ERROR, status 500). *)
C22_MissingFileNotFound ==
    (last.op = "load_connector_from_file" /\ ~files[last.arg].exists) =>
       /\ ~last.ok
       /\ last.err = "FILE_NOT_FOUND"
       /\ last.status_code = 404

(***************************************************************************)
(* Unexpected exceptions raised inside the middleware layers               *)
(***************************************************************************)
(* the custom layers around ErrorHandlingMiddleware: each add_middleware call
   wraps what was added before it *)
OuterMiddlewares == {"RequestLoggingMiddleware", "TenantIsolationMiddleware"}

(* the response when the dispatch of the named layer raises an exception of
   its own: only the layers around it see that exception *)
AppRaisedIn(rq, correlation_id, layer) ==
    LET e == Raised("Exception", 0)
    IN IF Rejected(rq) THEN Response(400, "none")
       ELSE CASE layer = "TenantIsolationMiddleware" -> ServerErrorMiddleware(e)
              [] layer = "RequestLoggingMiddleware" ->
                    ServerErrorMiddleware(TenantIsolationMiddleware(rq, correlation_id, e))

LayerRaises(hdr, correlation_id, layer) ==
    LET rq == Request("any", <<>>, layer, "Exception", hdr)
    IN /\ req' = rq
       /\ resp' = AppRaisedIn(rq, correlation_id, layer)
       /\ UNCHANGED <<taskVars, regVars, credVars>>

(* requests whose handler, or one of the layers around it, raises *)
LayersNext ==
    \/ \E hdr \in Hdrs, u \in {"u1", "u2"} :
          HealthCheck(hdr, u)
    \/ \E hdr \in Hdrs, u \in {"u1", "u2"},
          e \in {<<"HTTPException", 404>>, <<"MCPRuntimeException", 500>>,
                 <<"Exception", 0>>} : HandlerRaises(hdr, u, e[1], e[2])
    \/ \E hdr \in Hdrs, u \in {"u1", "u2"},
          layer \in OuterMiddlewares : LayerRaises(hdr, u, layer)

SpecLayers == Init /\ [][LayersNext]_vars

(* C23: the three custom middlewares wrap every request with error-handling
   outermost, request-logging next and tenant-isolation innermost, so an
   unexpected exception raised in request-logging, tenant-isolation or a
   route handler is converted by the error-handling layer into the generic
   500 JSON response. *)
C23_ErrorHandlingOutermost ==
    (req.route = "any" /\ req.exec = "Exception" /\ ~Rejected(req)) =>
       /\ resp.status = 500
       /\ resp.body = "internal_server_error"

(***************************************************************************)
(* Tool lookups of a project registry                                      *)
(***************************************************************************)
(* C24: in every project registry state, list_all_tools() and get_tool()
   agree: for each tool name n in list_all_tools(), list_all_tools()[n] is
   the LoadedTool, with the owning connector, that get_tool(n) returns. *)
C24_ListAndLookupAgree ==
    \A p \in DOMAIN registries :
       \A n \in DOMAIN list_all_tools(registries[p]) :
          list_all_tools(registries[p])[n] = get_tool(registries[p], n)

(***************************************************************************)
(* invocation_count of a connector's tools                                 *)
(***************************************************************************)
NotInstalled(p, name) ==
    IF p \in DOMAIN registries THEN ~HasConnector(registries[p], name) ELSE TRUE

(* a connector installed once from its file, called over REST and
   hot-reloaded while the file is rewritten *)
CallsNext ==
    \/ \E path \in Paths, c \in {"m1", "m2"}, t \in Times : WriteFile(path, c, t)
    \/ \E path \in Paths :
          NotInstalled("default", "a") /\ InstallConnectorFromFile("default", path, TRUE)
    \/ \E name \in {"t1", "t2", "nope"} : CallTool(NoHdr, "u1", name)
    \/ \E n \in {"a"} : HotReloadConnector("default", n)

SpecCalls == Init /\ [][CallsNext]_vars

(* the tools, as <<project, connector index, tool name>>, installed in regs *)
ToolsIn(regs) ==
    {<<p, i, n>> \in (DOMAIN regs) \X (1..2) \X ToolNames :
        i <= Len(regs[p]) /\ n \in DOMAIN regs[p][i].tools}

InvocationCount(regs, x) == regs[x[1]][x[2]].tools[x[3]].invocation_count

(* the tool a tools/call request for name looks up, if any *)
LookedUp(regs, name, x) ==
    /\ x[1] = "default"
    /\ x[3] = name
    /\ get_tool(regs["default"], name) # NoTool
    /\ regs[x[1]][x[2]].name = get_tool(regs["default"], name).connector_name

(* C25 as stated: for a connector tool that stays installed, invocation_count
   starts at 0, equals the number of tools/call requests that looked the tool
   up since its connector was first installed, and never decreases. *)
C25_CountNeverDecreases ==
    [][\A x \in ToolsIn(registries) \cap ToolsIn(registries') :
          registries'[x[1]][x[2]].name = registries[x[1]][x[2]].name =>
             InvocationCount(registries', x) >= InvocationCount(registries, x)]_vars

(* C25, amended: invocation_count is 0 when the connector is loaded, by an
   install or by a hot reload; every tools/call request that looks the tool
   up adds exactly one to it, however the execution ends, and leaves the
   other tools' counts alone; every other step leaves it unchanged, except
   that a hot reload of the connector sets it back to 0. *)
C25_CountsLookupsSinceLoad ==
    [][/\ \A x \in ToolsIn(registries') \ ToolsIn(registries) :
             InvocationCount(registries', x) = 0
       /\ \A x \in ToolsIn(registries) \cap ToolsIn(registries') :
             IF \E name \in {"t1", "t2", "nope"} :
                   CallTool(NoHdr, "u1", name) /\ LookedUp(registries, name, x)
             THEN InvocationCount(registries', x) = InvocationCount(registries, x) + 1
             ELSE IF \E name \in {"t1", "t2", "nope"} : CallTool(NoHdr, "u1", name)
             THEN InvocationCount(registries', x) = InvocationCount(registries, x)
             ELSE \/ InvocationCount(registries', x) = InvocationCount(registries, x)
                  \/ /\ last'.op = "hot_reload_connector" /\ last'.ok
                     /\ InvocationCount(registries', x) = 0]_vars

(* a tool called once since its connector was hot-reloaded, the call having
   failed *)
C25_Witness ==
    /\ last.op = "hot_reload_connector" /\ last.ok
    /\ req.route = "POST /v1/mcp/tools/call"
    /\ req.exec \in {"credential_error", "execution_error", "import_error"}
    /\ \E x \in ToolsIn(registries) :
          /\ x[3] = req.tool
          /\ InvocationCount(registries, x) = 1

(***************************************************************************)
(* Connector names and the secret names derived from them                  *)
(***************************************************************************)
Letters == {"a", "b", "c"}

(* the class [a-z0-9-._~] of validate_name's pattern *)
NameChars == Letters \cup {"0", "-", ".", "_", "~"}

(* [a-z][a-z0-9-._~]* matched against the whole of s *)
PlainName(s) ==
    /\ Len(s) >= 1
    /\ s[1] \in Letters
    /\ \A i \in 1..Len(s) : s[i] \in NameChars

(* ConnectorManifest.validate_name: ^(@[a-z][a-z0-9-._~]*/)?[a-z][a-z0-9-._~]*$ *)
validate_name(v) ==
    \/ PlainName(v)
    \/ /\ Len(v) >= 1
       /\ v[1] = "@"
       /\ \E k \in 2..Len(v) :
             /\ v[k] = "/"
             /\ PlainName(SubSeq(v, 2, k - 1))
             /\ PlainName(SubSeq(v, k + 1, Len(v)))

(* names a manifest may carry, valid or not *)
NameCandidates ==
    {<<"c">>, <<"a", "-", "b">>, <<"@", "a", "/", "b">>, <<"@", "A">>,
     <<"a", "/", "b">>, <<"@", "/", "b">>, <<"-", "a">>, <<>>}

ValidNames == {v \in NameCandidates : validate_name(v)}

NameDecl == ApiKeyAuth("k", "header", Null)

(* credentials of connectors with valid names stored from the CLI and over
   REST, shown, deleted, and resolved for an api_key tool *)
NamesNext ==
    \/ \E c \in ValidNames : CliStoreApiKey(c, "k", "header", Null)
    \/ \E c \in ValidNames, body \in {ApiKeyBody(Null, Null, Null), OAuthBody(Null)} :
          StoreCredentials(NoHdr, "u1", c, body)
    \/ \E c \in ValidNames : GetCredentials(NoHdr, "u1", c)
    \/ \E c \in ValidNames : DeleteCredentials(NoHdr, "u1", c)
    \/ \E c \in ValidNames : ResolveCredentials(NameDecl, c, "fail")

SpecNames == Init /\ [][NamesNext]_vars

(* the secrets a credential operation for connector c reads or removes *)
SecretsOf(store, c) ==
    {n \in DOMAIN store :
        \E t \in SecretTypes : n = generate_secret_name(c, t, NoSuffix)}

(* C26: for any two distinct valid connector names and any secret type,
   generate_secret_name yields distinct storage keys, so that resolving or
   showing a connector's credentials only ever finds secrets stored for
   that connector, and deleting them only removes such secrets. *)
C26_KeysDistinctPerConnector ==
    [][/\ \A c1, c2 \in ValidNames, t \in SecretTypes :
             c1 # c2 => generate_secret_name(c1, t, NoSuffix)
                           # generate_secret_name(c2, t, NoSuffix)
       /\ (cred'.op \in {"resolve", "get_credentials"} /\ cred'.ok) =>
             \A n \in SecretsOf(secrets', cred'.conn) :
                secrets'[n].connector_name = cred'.conn
       /\ cred'.op = "delete_credentials" =>
             \A n \in DOMAIN secrets \ DOMAIN secrets' :
                secrets[n].connector_name = cred'.conn]_vars

(***************************************************************************)
(* ToolExecutionClient: the upstream request of a connector tool           *)
(***************************************************************************)
(* Endpoints and URLs are sequences of units: a method word, a blank, "/",
   a path segment, a placeholder such as "{id}", a scheme and host *)
Whitespace == {" "}

RECURSIVE lstrip(_, _)
lstrip(s, chars) ==
    IF s # <<>> /\ Head(s) \in chars THEN lstrip(Tail(s), chars) ELSE s

RECURSIVE rstrip(_, _)
rstrip(s, chars) ==
    IF s # <<>> /\ s[Len(s)] \in chars
    THEN rstrip(SubSeq(s, 1, Len(s) - 1), chars) ELSE s

strip(s) == lstrip(rstrip(s, Whitespace), Whitespace)

(* str.upper of a method word *)
UpperWord(w) ==
    CASE w = "get" -> "GET" [] w = "head" -> "HEAD" [] OTHER -> w

(* the methods validate_endpoint lists *)
ValidMethods == {"GET", "POST", "PUT", "PATCH", "DELETE", "HEAD", "OPTIONS"}

(* units made of [a-zA-Z0-9_-] that start with a letter *)
Words == {"api", "items", "v1", "get", "head"} \cup ValidMethods

(* the legacy dot notation: words joined by single dots *)
DotNotation(v) ==
    /\ Len(v) >= 1
    /\ v[1] \in Words
    /\ v[Len(v)] \in Words
    /\ \A i \in 1..Len(v) : v[i] \in Words \cup {"."}
    /\ \A i \in 1..(Len(v) - 1) : ~(v[i] = "." /\ v[i + 1] = ".")

(* the index of the first blank of v, 0 if it has none *)
FirstBlank(v) ==
    IF \E i \in 1..Len(v) : v[i] = " "
    THEN CHOOSE i \in 1..Len(v) : v[i] = " " /\ \A j \in 1..(i - 1) : v[j] # " "
    ELSE 0

(* ConnectorTool.validate_endpoint: TRUE when the endpoint is accepted *)
validate_endpoint(v) ==
    IF FirstBlank(v) # 0
    THEN LET method == SubSeq(v, 1, FirstBlank(v) - 1)
             path == SubSeq(v, FirstBlank(v) + 1, Len(v))
         IN /\ Len(method) = 1
            /\ UpperWord(method[1]) \in ValidMethods
            /\ path # <<>>
            /\ path[1] = "/"
    ELSE DotNotation(v)

(* "{key}" *)
Placeholder(key) == CASE key = "id" -> "{id}" [] key = "q" -> "{q}"

(* url.replace(placeholder, str(value)) for every item of input_data *)
Substitute(url, input_data) ==
    [i \in 1..Len(url) |->
        IF \E k \in DOMAIN input_data : url[i] = Placeholder(k)
        THEN input_data[CHOOSE k \in DOMAIN input_data : url[i] = Placeholder(k)]
        ELSE url[i]]

(* the method prefixes _build_url and _prepare_request_data strip *)
http_methods == <<"GET", "POST", "PUT", "DELETE", "PATCH">>

(* the endpoint without a leading "METHOD " of http_methods, stripped *)
path_part_of(endpoint) ==
    IF /\ Len(endpoint) >= 2
       /\ \E i \in 1..Len(http_methods) : endpoint[1] = http_methods[i]
       /\ endpoint[2] = " "
    THEN strip(SubSeq(endpoint, 3, Len(endpoint)))
    ELSE endpoint

(* units that start with "http" *)
HttpUnits == {"https://api"}

(* _build_url: ValueError (raised) when there is neither a full URL nor a
   base URL *)
_build_url(endpoint, base_url, input_data) ==
    LET path_part == path_part_of(endpoint)
    IN IF path_part # <<>> /\ path_part[1] \in HttpUnits
       THEN [raised |-> FALSE, url |-> Substitute(path_part, input_data)]
       ELSE IF base_url # Null /\ base_url # <<>>
       THEN [raised |-> FALSE,
             url |-> Substitute(rstrip(base_url, {"/"}) \o <<"/">>
                                   \o lstrip(path_part, {"/"}), input_data)]
       ELSE [raised |-> TRUE, url |-> <<>>]

(* endpoints a manifest may carry, accepted or not *)
EndpointCandidates ==
    {<<m, " ", "/", "items">> : m \in ValidMethods \cup {"get", "TRACE"}}
    \cup {<<"GET", " ", "/", "items", "/", "{id}">>,
          <<"HEAD", " ", "/", "items", "/", "{id}">>,
          <<"api", ".", "items">>, <<"api", ".", ".", "items">>,
          <<"GET", " ", "items">>, <<"https://api", "/", "items">>}

Endpoints == {e \in EndpointCandidates : validate_endpoint(e)}

BaseUrls == {Null, <<"https://api">>, <<"https://api", "/">>,
             <<"https://api", "/", "v1", "/">>}

(* tools/call arguments *)
Arguments == {NoDict, Dict1("id", "7"), Dict1("id", "7") @@ Dict1("q", "x")}

(* _build_url for a tool of a validated manifest *)
BuildUrl(endpoint, base_url, input_data) ==
    LET r == _build_url(endpoint, base_url, input_data)
    IN /\ last' = Ret("_build_url", endpoint, ~r.raised,
                      IF r.raised THEN "ValueError" ELSE Null, <<>>)
                  @@ [base_url |-> base_url, input_data |-> input_data, url |-> r.url]
       /\ snap' = NoSnap
       /\ UNCHANGED <<hotReload, secretsDir, files, registries, watchers, taskVars, credVars,
                      httpVars>>

UrlNext ==
    \E endpoint \in Endpoints, base_url \in BaseUrls, input_data \in Arguments :
        BuildUrl(endpoint, base_url, input_data)

SpecUrl == Init /\ [][UrlNext]_vars

(* C29: for every endpoint of the form "METHOD /path" that manifest
   validation accepts, the URL built with a base_url is the base_url without
   its trailing slash, followed by the path with its placeholders
   substituted, the method word being stripped. *)
C29_UrlIsBasePlusPath ==
    (/\ last.op = "_build_url"
     /\ FirstBlank(last.arg) # 0
     /\ last.base_url # Null) =>
        /\ last.ok
        /\ last.url = Substitute(rstrip(last.base_url, {"/"})
                                    \o SubSeq(last.arg, FirstBlank(last.arg) + 1,
                                              Len(last.arg)),
                                 last.input_data)

(***************************************************************************)
(* tools/call over REST and over stdio, down to the upstream request       *)
(***************************************************************************)
(* the ConnectorTool behind each tool name: t1 is "get_item", a GET of one
   item with an API key in a header; t2 is "create_item", a POST without
   authentication. required are the required properties of input_schema. *)
ConnectorTool(n) ==
    CASE n = "t1" -> [name |-> <<"get", "_", "item">>,
                      endpoint |-> <<"GET", " ", "/", "items", "/", "{id}">>,
                      auth |-> ApiKeyAuth("k", "header", Null), required |-> {"id"}]
      [] n = "t2" -> [name |-> <<"create", "_", "item">>,
                      endpoint |-> <<"POST", " ", "/", "items">>,
                      auth |-> NoAuth, required |-> {}]

(* connector.manifest.base_url: connector "a" declares one, "b" does not *)
ManifestBaseUrl(connector_name) ==
    IF connector_name = "a" THEN <<"https://api", "/">> ELSE Null

(* _determine_http_method: the verb found in the lower-cased tool name *)
_determine_http_method(tool) ==
    LET has(verbs) == \E i \in 1..Len(tool.name) : tool.name[i] \in verbs
    IN IF has({"create", "add", "post", "submit"}) THEN "POST"
       ELSE IF has({"update", "edit", "modify"}) THEN "PUT"
       ELSE IF has({"delete", "remove"}) THEN "DELETE"
       ELSE "GET"

(* _prepare_request_data: a JSON body for write methods, otherwise the
   arguments that are no path parameters as query parameters *)
_prepare_request_data(tool, input_data, method) ==
    IF method \in {"POST", "PUT", "PATCH"}
    THEN [json |-> input_data, params |-> NoDict]
    ELSE LET path_part == path_part_of(tool.endpoint)
             path_params == {k \in DOMAIN input_data :
                                \E i \in 1..Len(path_part) : path_part[i] = Placeholder(k)}
         IN [json |-> Null,
             params |-> [k \in DOMAIN input_data \ path_params |-> input_data[k]]]

(* no request was sent upstream *)
NoUpstream == [method |-> Null, url |-> <<>>, json |-> Null, params |-> NoDict,
               headers |-> NoDict, cookies |-> NoDict]

(* the statuses the upstream API answers with *)
UpstreamStatuses == {200, 500}

(* execute_tool: the exception it raises ("none" for a result) and the
   request AuthenticatedHttpClient.request sent, with the resolved
   credentials applied over the prepared headers, parameters and cookies *)
execute_tool(tool, connector_name, input_data, base_url, store, cache, status) ==
    LET built == _build_url(tool.endpoint, base_url, input_data)
        method == _determine_http_method(tool)
        kwargs == _prepare_request_data(tool, input_data, method)
        credentials == resolve_credentials(store, cache, tool.auth, connector_name, "fail")
        sent == [method |-> method, url |-> built.url, json |-> kwargs.json,
                 params |-> credentials.query_params @@ kwargs.params,
                 headers |-> credentials.headers, cookies |-> credentials.cookies]
    IN IF ~(tool.required \subseteq DOMAIN input_data)
       THEN [raised |-> "ValueError", upstream |-> NoUpstream]
       ELSE IF built.raised THEN [raised |-> "ValueError", upstream |-> NoUpstream]
       ELSE IF ~credentials.ok
       THEN [raised |-> "CredentialResolutionError", upstream |-> NoUpstream]
       ELSE IF status >= 400 THEN [raised |-> "HTTPStatusError", upstream |-> sent]
       ELSE [raised |-> "none", upstream |-> sent]

(* how the handlers name the way an execution ended *)
ExecOf(raised) ==
    CASE raised = "none" -> "ok"
      [] raised = "CredentialResolutionError" -> "credential_error"
      [] OTHER -> "execution_error"

(* call_tool's execution of a connector tool that was found: base_url=None *)
rest_execute(regs, store, cache, name, input_data, status) ==
    LET loaded_tool == get_tool(regs["default"], name)
    IN execute_tool(ConnectorTool(name), <<loaded_tool.connector_name>>, input_data,
                    Null, store, cache, status)

(* _handle_tools_call's execution of a connector tool that was found: the
   base URL of the manifest of the tool's connector *)
stdio_execute(regs, store, cache, name, input_data, status) ==
    LET loaded_tool == get_tool(regs["default"], name)
        connector == get_connector(regs["default"], loaded_tool.connector_name)
    IN execute_tool(ConnectorTool(name), <<loaded_tool.connector_name>>, input_data,
                    ManifestBaseUrl(connector.name), store, cache, status)

ToolFound(regs, name) ==
    IF "default" \in DOMAIN regs THEN get_tool(regs["default"], name) # NoTool
    ELSE FALSE

(* POST /v1/mcp/tools/call for a connector tool of the default project *)
RestToolsCall(name, input_data, status) ==
    /\ ToolFound(registries, name)
    /\ LET x == rest_execute(registries, secrets, oauthCache, name, input_data, status)
           rq == Request("POST /v1/mcp/tools/call", <<>>, name, ExecOf(x.raised), NoHdr)
       IN /\ req' = rq
          /\ resp' = App(rq, "u1", call_tool(registries, "default", name,
                                             ExecOf(x.raised)))
                     @@ [upstream |-> x.upstream]
    /\ registries' = call_tool_marks(registries, "default", name)
    /\ CountsWithin(registries')
    /\ UNCHANGED <<taskVars, hotReload, secretsDir, files, watchers, last, snap, credVars>>

(* a tools/call line for a connector tool read by the stdio server *)
StdioToolsCall(name, input_data, status) ==
    /\ ToolFound(registries, name)
    /\ stdio.pc = "reading"
    /\ stdio.n < MaxLines
    /\ LET x == stdio_execute(registries, secrets, oauthCache, name, input_data, status)
           line == Line("object", "1", "tools/call", "object", name)
           h == _handle_request(registries, watchers, json_loads(line).value,
                                ExecOf(x.raised), stdio.development)
       IN /\ stdio' = [stdio EXCEPT !.pc = IF h.raised THEN "stopped" ELSE "reading",
                                    !.n = @ + 1,
                                    !.line = line,
                                    !.wrote = h.out]
                      @@ [upstream |-> x.upstream]
          /\ registries' = h.regs
          /\ watchers' = h.watch
    /\ CountsWithin(registries')
    /\ last' = Ret("stdio", Null, TRUE, Null, <<>>)
    /\ snap' = NoSnap
    /\ UNCHANGED <<hotReload, secretsDir, files, credVars, httpVars, reloading, resolving>>

(* connectors installed from manifests, API keys stored, and the
   connectors' tools called over both transports *)
ExecNext ==
    \/ \E id \in {"m2", "m3"} :
          NotInstalled("default", ManifestOf(id).name)
             /\ InstallConnectorFromManifest("default", id, TRUE)
    \/ \E c \in {<<"a">>, <<"b">>} : CliStoreApiKey(c, "k", "header", Null)
    \/ \E name \in ToolNames, input_data \in Arguments, status \in UpstreamStatuses :
          RestToolsCall(name, input_data, status)
    \/ \E name \in ToolNames, input_data \in Arguments, status \in UpstreamStatuses :
          StdioToolsCall(name, input_data, status)

SpecExec == Init /\ [][ExecNext]_vars

(* C27: for the same registry state, stored secrets, connector tool name and
   arguments, POST /v1/mcp/tools/call and the stdio tools/call send the same
   upstream request (URL, method, body or query, credentials) and report the
   same isError. *)
C27_TransportsAgree ==
    [][\A name \in ToolNames, input_data \in Arguments, status \in UpstreamStatuses :
          /\ RestToolsCall(name, input_data, status) =>
                LET y == stdio_execute(registries, secrets, oauthCache, name,
                                       input_data, status)
                IN /\ resp'.upstream = y.upstream
                   /\ (resp'.isError = "true") <=> (y.raised # "none")
          /\ StdioToolsCall(name, input_data, status) =>
                LET x == rest_execute(registries, secrets, oauthCache, name,
                                      input_data, status)
                IN /\ stdio'.upstream = x.upstream
                   /\ stdio'.wrote[1].isError <=> (x.raised # "none")]_vars

(***************************************************************************)
(* The "credentials" commands of the CLI                                   *)
(***************************************************************************)
(* How a command's coroutine ended: the exit code it returned, whether
   get_secret_storage had returned the singleton, whether
   close_secret_storage was called, and the store it left *)
CliRun(exit_code, obtained, closed, store) ==
    [exit_code |-> exit_code, obtained |-> obtained, closed |-> closed,
     store |-> store]

(* what may go wrong underneath a command: nothing, the construction of the
   storage, or a SecretStorageError of a storage operation *)
CliFaults == {"none", "create_storage", "storage_error"}

(* _store_credentials; tag_ok: every --tag holds "="; given: the options the
   auth type requires are present *)
_store_credentials(store, connector_name, auth_type, tag_ok, given, fault) ==
    IF fault = "create_storage" THEN CliRun(1, FALSE, FALSE, store)
    ELSE IF ~tag_ok THEN CliRun(1, TRUE, FALSE, store)
    ELSE IF ~given THEN CliRun(1, TRUE, FALSE, store)
    ELSE IF fault = "storage_error" THEN CliRun(1, TRUE, FALSE, store)
    ELSE IF auth_type = "api_key"
    THEN CliRun(0, TRUE, TRUE,
                store_secret(store,
                             generate_secret_name(connector_name, "api_key", NoSuffix),
                             ApiKeyValue, "api_key", connector_name,
                             Tags("authorization", "header", "", Null, Null), "cli"))
    ELSE CliRun(0, TRUE, TRUE,
                store_secret(
                   store_secret(store,
                                generate_secret_name(connector_name, "oauth2_client_id",
                                                     NoSuffix),
                                "id1", "oauth2_client_id", connector_name,
                                Tags(Null, Null, Null, "", ""), "cli"),
                   generate_secret_name(connector_name, "oauth2_client_secret", NoSuffix),
                   "s1", "oauth2_client_secret", connector_name,
                   Tags(Null, Null, Null, "", ""), "cli"))

(* list_secrets with its connector filter (<<>>: no filter), then the connectors that have an
   api_key or an oauth2_client_id secret *)
credentials_list(store, connector_name) ==
    {store[n].connector_name :
        n \in {x \in DOMAIN store :
                  /\ connector_name # <<>> => store[x].connector_name = connector_name
                  /\ SecretTypeOf(store[x].secret_type) \in {"api_key", "oauth2_client_id"}}}

(* _list_credentials: the table of an empty list returns before the close *)
_list_credentials(store, connector_name, format, fault) ==
    IF fault = "create_storage" THEN CliRun(1, FALSE, FALSE, store)
    ELSE IF fault = "storage_error" THEN CliRun(1, TRUE, FALSE, store)
    ELSE IF format = "table" /\ credentials_list(store, connector_name) = {}
    THEN CliRun(0, TRUE, FALSE, store)
    ELSE CliRun(0, TRUE, TRUE, store)

(* _show_credentials *)
_show_credentials(store, connector_name, fault) ==
    IF fault = "create_storage" THEN CliRun(1, FALSE, FALSE, store)
    ELSE IF fault = "storage_error" THEN CliRun(1, TRUE, FALSE, store)
    ELSE IF \/ secret_exists(store, generate_secret_name(connector_name, "api_key",
                                                         NoSuffix))
            \/ secret_exists(store, generate_secret_name(connector_name,
                                                         "oauth2_client_id", NoSuffix))
    THEN CliRun(0, TRUE, TRUE, store)
    ELSE CliRun(1, TRUE, FALSE, store)

(* _delete_credentials; confirmed is the answer to the prompt *)
_delete_credentials(store, connector_name, force, confirmed, fault) ==
    IF fault = "create_storage" THEN CliRun(1, FALSE, FALSE, store)
    ELSE IF fault = "storage_error" THEN CliRun(1, TRUE, FALSE, store)
    ELSE IF ~(\/ secret_exists(store, generate_secret_name(connector_name, "api_key",
                                                           NoSuffix))
              \/ secret_exists(store, generate_secret_name(connector_name,
                                                           "oauth2_client_id", NoSuffix)))
    THEN CliRun(1, TRUE, FALSE, store)
    ELSE IF ~force /\ ~confirmed THEN CliRun(0, TRUE, FALSE, store)
    ELSE CliRun(0, TRUE, TRUE, delete_credentials(store, connector_name).store)

(* sys.exit(asyncio.run(coroutine)) of one command *)
CliCommand(op, c, run) ==
    /\ secrets' = run.store
    /\ cred' = CredRet(op, c, run.exit_code = 0)
               @@ [exit_code |-> run.exit_code, obtained |-> run.obtained,
                   closed |-> run.closed]
    /\ UNCHANGED <<taskVars, oauthCache, regVars, httpVars>>

CliStore(c, auth_type, tag_ok, given, fault) ==
    CliCommand("credentials store", c,
               _store_credentials(secrets, c, auth_type, tag_ok, given, fault))

CliList(c, format, fault) ==
    CliCommand("credentials list", c, _list_credentials(secrets, c, format, fault))

CliShow(c, fault) ==
    CliCommand("credentials show", c, _show_credentials(secrets, c, fault))

CliDelete(c, force, confirmed, fault) ==
    CliCommand("credentials delete", c,
               _delete_credentials(secrets, c, force, confirmed, fault))

CliNext ==
    \/ \E c \in CredConns, auth_type \in {"api_key", "oauth2_client_credentials"},
          tag_ok \in BOOLEAN, given \in BOOLEAN, fault \in CliFaults :
          CliStore(c, auth_type, tag_ok, given, fault)
    \/ \E c \in CredConns \cup {<<>>}, format \in {"table", "json"}, fault \in CliFaults :
          CliList(c, format, fault)
    \/ \E c \in CredConns, fault \in CliFaults : CliShow(c, fault)
    \/ \E c \in CredConns, force \in BOOLEAN, confirmed \in BOOLEAN, fault \in CliFaults :
          CliDelete(c, force, confirmed, fault)

SpecCli == Init /\ [][CliNext]_vars

CliOps == {"credentials store", "credentials list", "credentials show",
           "credentials delete"}

(* C28: on every execution path of the credentials store, list, show and
   delete commands that has obtained the secret-storage singleton,
   close_secret_storage is called before the command exits, the paths that
   exit with code 1 or return early included. *)
C28_StorageClosedOnEveryPath ==
    (cred.op \in CliOps /\ cred.obtained) => cred.closed

(***************************************************************************)
(* LocalSecretStorage instances sharing one directory                      *)
(***************************************************************************)
(* _load_metadata: the content of the index file, {} when there is none *)
_load_metadata(dir) == dir.index

(* _save_metadata that keeps the entries the index file holds already *)
_save_metadata_merge(dir, metadata) ==
    [dir EXCEPT !.index = metadata @@ dir.index]

(* _save_metadata: the index file is rewritten from the instance's copy *)
_save_metadata(dir, metadata) == [dir EXCEPT !.index = metadata]

(* LocalSecretStorage.store_secret on instance i: the secret file, the entry
   in the instance's metadata, then _save_metadata *)
local_store_secret(dir, i, name, connector_name) ==
    LET metadata == [n \in DOMAIN dir.metadata[i] \cup {name} |->
                        IF n = name
                        THEN [secret_type |-> "api_key",
                              connector_name |-> connector_name]
                        ELSE dir.metadata[i][n]]
    IN _save_metadata([dir EXCEPT !.files = @ \cup {name}, !.metadata[i] = metadata],
                      metadata)

(* LocalSecretStorage.get_secret: FALSE stands for SecretNotFoundError *)
local_get_secret(metadata, secret_files, name) ==
    name \in DOMAIN metadata /\ name \in secret_files

LocalRet(op, i, name, found) ==
    [op |-> op, instance |-> i, name |-> name, found |-> found]

LocalStep(dir) ==
    /\ secretsDir' = dir
    /\ UNCHANGED <<hotReload, files, registries, watchers, last, snap, credVars,
                   httpVars, taskVars>>

(* LocalSecretStorage.__init__ in process i *)
OpenStorage(i) ==
    /\ i \notin secretsDir.opened
    /\ LocalStep([secretsDir EXCEPT !.opened = @ \cup {i},
                                    !.metadata[i] = _load_metadata(secretsDir),
                                    !.ret = LocalRet("init", i, Null, TRUE)])

(* store_secret of connector c's API key through instance i *)
StoreSecretVia(i, c) ==
    LET name == generate_secret_name(c, "api_key", NoSuffix)
    IN /\ i \in secretsDir.opened
       /\ LocalStep([local_store_secret(secretsDir, i, name, c)
                        EXCEPT !.ret = LocalRet("store_secret", i, name, TRUE)])

(* get_secret of connector c's API key through instance i *)
GetSecretVia(i, c) ==
    LET name == generate_secret_name(c, "api_key", NoSuffix)
    IN /\ i \in secretsDir.opened
       /\ LocalStep([secretsDir EXCEPT !.ret =
                        LocalRet("get_secret", i, name,
                                 local_get_secret(secretsDir.metadata[i],
                                                  secretsDir.files, name))])

LocalNext ==
    \/ \E i \in Instances : OpenStorage(i)
    \/ \E i \in Instances, c \in CredConns : StoreSecretVia(i, c)
    \/ \E i \in Instances, c \in CredConns : GetSecretVia(i, c)

SpecLocal == Init /\ [][LocalNext]_vars

(* C30: two local secret store instances opened on the same directory race
   on the metadata index: every store rewrites the whole index file from the
   storing instance's own in-memory copy, so each entry the index held that
   this copy lacks (a secret stored through another instance meanwhile) is
   gone from the index while its secret file stays on disk, and an instance
   opened afterwards reports that secret as not found. *)
C30_IndexRewrittenFromOwnCopy ==
    [][\A i \in Instances, c \in CredConns :
          StoreSecretVia(i, c) =>
             /\ secretsDir'.index = secretsDir'.metadata[i]
             /\ \A n \in DOMAIN secretsDir.index \ DOMAIN secretsDir'.metadata[i] :
                   /\ n \in secretsDir'.files
                   /\ n \notin DOMAIN secretsDir'.index
                   /\ ~local_get_secret(_load_metadata(secretsDir'),
                                        secretsDir'.files, n)]_vars

(* an instance opened after the two stores has just reported as not found a
   secret whose file is on disk and which another instance stored *)
C30_Witness ==
    /\ secretsDir.ret.op = "get_secret"
    /\ ~secretsDir.ret.found
    /\ secretsDir.ret.name \in secretsDir.files
    /\ secretsDir.ret.name \notin DOMAIN secretsDir.index
    /\ secretsDir.metadata[secretsDir.ret.instance] = secretsDir.index
    /\ secretsDir.index # NoSecrets
    /\ \E j \in secretsDir.opened \ {secretsDir.ret.instance} :
          secretsDir.ret.name \in DOMAIN secretsDir.metadata[j]
====
